---- MODULE Spec2Model ----
(***************************************************************************)
(* A model of the FeelEd story pipeline: the PCM -> WAV encoder, the      *)
(* markdown section parser and the validator of geminiService, the        *)
(* useStoryGenerator hook with its best-effort narration, and the         *)
(* /api/generate-story serverless handler.                                *)
(*                                                                         *)
(* Text is a sequence of tokens.  A token is one character ("#", ":",     *)
(* " ", "\n") or one word (a maximal run of letters such as "Title"):     *)
(* every regular expression of the source treats the letters of a word    *)
(* alike, so a word stands for its letters.                                *)
(***************************************************************************)
EXTENDS Integers, Sequences, FiniteSets, TLC

(***************************************************************************)
(* Bounds of the model.                                                    *)
(***************************************************************************)
MaxPcmLen == 4
MaxBlankLines == 1

(***************************************************************************)
(* Text helpers: JavaScript's \s, String.prototype.trim and toLowerCase.   *)
(***************************************************************************)
NL == "\n"
Whitespace == {" ", NL}

IsSpace(c) == c \in Whitespace

Min(S) == CHOOSE x \in S : \A y \in S : x <= y
Max(S) == CHOOSE x \in S : \A y \in S : x >= y

ToLowerChar(c) ==
    CASE c = "Title" -> "title"
      [] c = "Introduction" -> "introduction"
      [] c = "Emotional" -> "emotional"
      [] c = "Trigger" -> "trigger"
      [] c = "Concept" -> "concept"
      [] c = "Explanation" -> "explanation"
      [] c = "Resolution" -> "resolution"
      [] c = "Moral" -> "moral"
      [] c = "Message" -> "message"
      [] c = "Note" -> "note"
      [] OTHER -> c

ToLowerCase(s) == [i \in 1..Len(s) |-> ToLowerChar(s[i])]

\* s.trim(): s without its leading and trailing whitespace
Trim(s) ==
    LET solid == {i \in 1..Len(s) : ~IsSpace(s[i])}
    IN  IF solid = {} THEN <<>> ELSE SubSeq(s, Min(solid), Max(solid))

\* the length of the longest run of whitespace that starts at position p
WsRun(s, p) ==
    IF p > Len(s) THEN 0
    ELSE Min({q \in p..(Len(s) + 1) : q = Len(s) + 1 \/ ~IsSpace(s[q])}) - p

\* the length of the longest run of [^:\n] that starts at position p
HeadRun(s, p) ==
    IF p > Len(s) THEN 0
    ELSE Min({q \in p..(Len(s) + 1) : q = Len(s) + 1 \/ s[q] \in {":", NL}}) - p

\* the length of the longest run of . (anything but a newline) from p
DotRun(s, p) ==
    IF p > Len(s) THEN 0
    ELSE Min({q \in p..(Len(s) + 1) : q = Len(s) + 1 \/ s[q] = NL}) - p

(***************************************************************************)
(* pcmToWav: a 44-byte little-endian header followed by the samples.       *)
(***************************************************************************)
Byte == 0..255

\* DataView.setUint8 of a character code: the four-character tags
RIFF == <<82, 73, 70, 70>>
WAVE == <<87, 65, 86, 69>>
FMT  == <<102, 109, 116, 32>>
DATA == <<100, 97, 116, 97>>

\* DataView.setUint32(offset, v, true) and setUint16(offset, v, true)
\* (the four, or two, low-order bytes of v, least significant first)
U32LE(v) ==
    <<v % 256, (v \div 256) % 256, (v \div 65536) % 256, (v \div 16777216) % 256>>

U16LE(v) ==
    <<v % 256, (v \div 256) % 256>>

sampleRate == 24000
numChannels == 1
bitsPerSample == 16
blockAlign == (numChannels * bitsPerSample) \div 8
byteRate == sampleRate * blockAlign

pcmToWavBigEndian(pcmBytes) ==
    LET dataSize == Len(pcmBytes)
        rev(b) == [i \in 1..Len(b) |-> b[Len(b) + 1 - i]]
    IN  RIFF \o rev(U32LE(36 + dataSize)) \o WAVE
          \o FMT \o U32LE(16) \o U16LE(1) \o U16LE(numChannels)
          \o U32LE(sampleRate) \o U32LE(byteRate)
          \o U16LE(blockAlign) \o U16LE(bitsPerSample)
          \o DATA \o rev(U32LE(dataSize))
          \o pcmBytes

pcmToWav(pcmBytes) ==
    LET dataSize == Len(pcmBytes)
    IN  RIFF \o U32LE(36 + dataSize) \o WAVE
          \o FMT \o U32LE(16) \o U16LE(1) \o U16LE(numChannels)
          \o U32LE(sampleRate) \o U32LE(byteRate)
          \o U16LE(blockAlign) \o U16LE(bitsPerSample)
          \o DATA \o U32LE(dataSize)
          \o pcmBytes

(***************************************************************************)
(* parseStoryFromMarkdown                                                  *)
(***************************************************************************)
StoryKeys ==
    {"title", "introduction", "emotional_trigger", "concept_explanation",
     "resolution", "moral_message"}

\* headingMap: the normalised heading text -> the key of Story
headingMap ==
    (<<"title">> :> "title")
      @@ (<<"introduction">> :> "introduction")
      @@ (<<"emotional", " ", "trigger">> :> "emotional_trigger")
      @@ (<<"concept", " ", "explanation">> :> "concept_explanation")
      @@ (<<"resolution">> :> "resolution")
      @@ (<<"moral", " ", "message">> :> "moral_message")

\* The ways  #\s+([^:\n]+):?\s*\n  matches with its "#" at position i:
\* <<k, hl, c, w>> = the lengths taken by \s+, ([^:\n]+), :? and \s*.
HeadingMatches(s, i) ==
    IF i > Len(s) \/ s[i] # "#" THEN {}
    ELSE LET Lengths(k, hl, c, w) == <<k, hl, c, w>>
             tries ==
                 UNION {UNION {UNION {{Lengths(k, hl, c, w) :
                                          w \in 0..WsRun(s, i + 1 + k + hl + c)} :
                                      c \in {0, 1}} :
                               hl \in 1..HeadRun(s, i + 1 + k)} :
                        k \in 1..WsRun(s, i + 1)}
         IN  {t \in tries :
                LET e == i + 1 + t[1] + t[2]
                    n == e + t[3] + t[4]
                IN  /\ (t[3] = 1 => (e <= Len(s) /\ s[e] = ":"))
                    /\ n <= Len(s)
                    /\ s[n] = NL}

\* a backtracking matcher tries the greedy quantifiers longest first
Preferred(t, u) ==
    \/ t[1] > u[1]
    \/ t[1] = u[1] /\ t[2] > u[2]
    \/ t[1] = u[1] /\ t[2] = u[2] /\ t[3] > u[3]
    \/ t[1] = u[1] /\ t[2] = u[2] /\ t[3] = u[3] /\ t[4] >= u[4]

\* (?=#\s+|$) holds at position q (no m flag: $ is the end of the input)
SectionEndAt(s, q) ==
    \/ q = Len(s) + 1
    \/ s[q] = "#" /\ q + 1 <= Len(s) /\ IsSpace(s[q + 1])

\* the positions at or after from where the heading part matches
HeadingStarts(s, from) == {i \in from..Len(s) : HeadingMatches(s, i) # {}}

\* the match the backtracking matcher finds first
FirstTried(M) == CHOOSE x \in M : \A y \in M : Preferred(x, y)

\* the match with its "#" at position i and heading part t
SectionMatch(s, i, t) ==
    LET h == i + 1 + t[1]
        bodyStart == h + t[2] + t[3] + t[4] + 1
        \* ([\s\S]*?) is lazy: it stops at the first position where the
        \* lookahead holds
        bodyEnd == Min({q \in bodyStart..(Len(s) + 1) : SectionEndAt(s, q)})
    IN  [found |-> TRUE,
         heading |-> SubSeq(s, h, h + t[2] - 1),
         content |-> SubSeq(s, bodyStart, bodyEnd - 1),
         lastIndex |-> bodyEnd]

LeftmostSection(s, starts) ==
    IF starts = {} THEN [found |-> FALSE]
    ELSE SectionMatch(s, Min(starts), FirstTried(HeadingMatches(s, Min(starts))))

\* sectionRegex.exec with lastIndex = from - 1: the leftmost match at or
\* after position from, or found = FALSE
SectionExec(s, from) == LeftmostSection(s, HeadingStarts(s, from))

\* if (key) story[key] = content
AssignSection(partialStory, heading, content) ==
    IF heading \in DOMAIN headingMap
    THEN (headingMap[heading] :> content) @@ partialStory
    ELSE partialStory

\* the while loop over sectionRegex.exec, match being the result of the
\* last exec; a story is the function from the keys assigned so far to
\* their text (a Partial<Story>)
RECURSIVE ParseLoop(_, _, _)
ParseLoop(s, match, partialStory) ==
    IF ~match.found THEN partialStory
    ELSE ParseLoop(s, SectionExec(s, match.lastIndex),
             AssignSection(partialStory, ToLowerCase(Trim(match.heading)), Trim(match.content)))

ParseSections(s, from, partialStory) == ParseLoop(s, SectionExec(s, from), partialStory)

EmptyStory == [k \in {} |-> <<>>]

\* JavaScript truthiness of story[key]: assigned and not the empty string
Truthy(partialStory, key) == key \in DOMAIN partialStory /\ partialStory[key] # <<>>

\* #\s+Title: matches (case-insensitively) with its "#" at position i
TitleStartsAt(s, i) ==
    /\ s[i] = "#"
    /\ WsRun(s, i + 1) >= 1
    /\ i + 2 + WsRun(s, i + 1) <= Len(s)
    /\ ToLowerChar(s[i + 1 + WsRun(s, i + 1)]) = "title"
    /\ s[i + 2 + WsRun(s, i + 1)] = ":"

\* capture group 1 of the match whose "Title:" ends before position p:
\* \s* takes all the whitespace, also line breaks, (.*) the rest of the line
TitleGroup(s, p) == SubSeq(s, p + WsRun(s, p), p + WsRun(s, p) + DotRun(s, p + WsRun(s, p)) - 1)

TitleMatchFrom(s, starts) ==
    IF starts = {} THEN [matched |-> FALSE]
    ELSE [matched |-> TRUE,
          group1 |-> TitleGroup(s, Min(starts) + 3 + WsRun(s, Min(starts) + 1))]

\* markdown.match(/#\s+Title:\s*(.*)/i): capture group 1 of the leftmost
\* match, or matched = FALSE
TitleMatch(s) == TitleMatchFrom(s, {i \in 1..Len(s) : TitleStartsAt(s, i)})

\* if (titleMatch && titleMatch[1]) story.title = titleMatch[1].trim()
AssignTitle(partialStory, titleMatch) ==
    IF titleMatch.matched /\ titleMatch.group1 # <<>>
    THEN ("title" :> Trim(titleMatch.group1)) @@ partialStory
    ELSE partialStory

\* the inline-title special case that follows the loop
TitleFallback(s, partialStory) ==
    IF ~Truthy(partialStory, "title") THEN AssignTitle(partialStory, TitleMatch(s)) ELSE partialStory

parseStoryFromMarkdown(markdown) ==
    TitleFallback(markdown, ParseSections(markdown, 1, EmptyStory))

(***************************************************************************)
(* The validation of generateStory: the required keys that are missing or  *)
(* empty, and the message of the StoryGenerationError built from them.     *)
(***************************************************************************)
requiredKeysWithTrigger ==
    <<"title", "introduction", "emotional_trigger", "concept_explanation",
      "resolution", "moral_message">>

requiredKeys ==
    <<"title", "introduction", "concept_explanation", "resolution", "moral_message">>

\* !story[key] || !story[key]?.trim()
IsMissing(partialStory, key) == ~Truthy(partialStory, key) \/ Trim(partialStory[key]) = <<>>

\* requiredKeys.filter(key => ...)
missingKeys(partialStory) == SelectSeq(requiredKeys, LAMBDA key : IsMissing(partialStory, key))

\* Array.prototype.join(', ')
RECURSIVE Join(_, _)
Join(keys, sep) ==
    IF keys = <<>> THEN <<>>
    ELSE IF Len(keys) = 1 THEN <<keys[1]>>
    ELSE <<keys[1], sep>> \o Join(Tail(keys), sep)

IncompleteMessageFirstOnly(missing) ==
    <<"The AI didn't generate a complete story. It missed the following sections: ">>
      \o <<missing[1]>> \o <<". Please try again.">>

IncompleteMessage(missing) ==
    <<"The AI didn't generate a complete story. It missed the following sections: ">>
      \o Join(missing, ", ") \o <<". Please try again.">>

AppError(name, message) == [name |-> name, message |-> message]

AppErrorNames == {"NetworkError", "APIError", "StoryGenerationError", "TTSError"}

\* the state of a promise: pending, fulfilled with a value, or rejected
Pending == [state |-> "pending"]
Returned(value) == [state |-> "returned", value |-> value]
Thrown(err) == [state |-> "thrown", error |-> err]

(***************************************************************************)
(* The text the generation endpoint can produce: sections under headings,  *)
(* rendered to markdown.  A section is inline when its content follows the *)
(* heading on the same line ("# Title: My Story").                         *)
(***************************************************************************)
HeadingText(key) ==
    CASE key = "title" -> <<"Title">>
      [] key = "introduction" -> <<"Introduction">>
      [] key = "emotional_trigger" -> <<"Emotional", " ", "Trigger">>
      [] key = "concept_explanation" -> <<"Concept", " ", "Explanation">>
      [] key = "resolution" -> <<"Resolution">>
      [] key = "moral_message" -> <<"Moral", " ", "Message">>
      [] OTHER -> <<"Note">>

Section(key, colon, inline, body) ==
    [key |-> key, colon |-> colon, inline |-> inline, body |-> body]

BlankLines(n) == [i \in 1..n |-> NL]

RenderSection(sec, blank) ==
    IF sec.inline
    THEN <<"#", " ">> \o HeadingText(sec.key) \o <<":", " ">> \o sec.body \o <<NL>>
           \o BlankLines(blank)
    ELSE <<"#", " ">> \o HeadingText(sec.key)
           \o (IF sec.colon THEN <<":">> ELSE <<>>) \o <<NL>>
           \o sec.body \o (IF sec.body = <<>> THEN <<>> ELSE <<NL>>)
           \o BlankLines(blank)

RECURSIVE RenderSections(_, _)
RenderSections(secs, blank) ==
    IF secs = <<>> THEN <<>>
    ELSE RenderSection(Head(secs), blank) \o RenderSections(Tail(secs), blank)

Render(d) == RenderSections(d.sections, d.blank)

PlainBody == <<"a">>
PaddedBody == <<" ", "a", " ", "b", NL, NL, "c", " ">>
HashBody == <<"a", " ", "#", " ", "b">>
HashTitleBody == <<"c", " ", "#", " ", "Title", NL, "b">>

Plain(key) == <<Section(key, FALSE, FALSE, PlainBody)>>
Padded(key) == <<Section(key, TRUE, FALSE, PaddedBody)>>
Hashed(key) == <<Section(key, FALSE, FALSE, HashBody)>>
EmptyColon(key) == <<Section(key, TRUE, FALSE, <<>>)>>
EmptyBare(key) == <<Section(key, FALSE, FALSE, <<>>)>>
Inline(key) == <<Section(key, TRUE, TRUE, <<"a", " ", "b">>)>>
Absent == <<>>

\* all six sections with content, with and without the colon
FullVariants(key) ==
    IF key \in {"title", "introduction", "resolution", "moral_message"}
    THEN {Plain(key), Padded(key), Hashed(key)}
    ELSE {Plain(key), Padded(key)}
\* sections missing, or present and empty
PartialVariants(key) ==
    IF key \in {"title", "introduction", "emotional_trigger"}
    THEN {Absent, Plain(key), EmptyColon(key)}
    ELSE {Absent, Plain(key)}
TitleVariants ==
    {Absent, Plain("title"), Padded("title"), Hashed("title"),
     EmptyColon("title"), EmptyBare("title"), Inline("title")}
UnknownVariants ==
    {<<Section("note", FALSE, FALSE, <<"c">>)>>,
     <<Section("note", TRUE, FALSE, HashTitleBody)>>}

SectionLists(full) ==
    LET V(key) == IF full THEN FullVariants(key) ELSE PartialVariants(key)
    IN  {t \o i \o e \o c \o r \o m :
            t \in V("title"), i \in V("introduction"), e \in V("emotional_trigger"),
            c \in V("concept_explanation"), r \in V("resolution"),
            m \in V("moral_message")}

TitleLists ==
    {t \o i \o e \o Plain("concept_explanation") \o Plain("resolution")
       \o Plain("moral_message") :
        t \in TitleVariants,
        i \in {Absent, Plain("introduction")},
        e \in {Absent, Plain("emotional_trigger")}}

\* a list with one section under an unknown heading put in at position p
WithUnknown ==
    {SubSeq(l, 1, p) \o u \o SubSeq(l, p + 1, Len(l)) :
        l \in TitleLists, p \in 0..3, u \in UnknownVariants}

Docs ==
    {[sections |-> l, blank |-> b] :
        l \in SectionLists(TRUE) \cup SectionLists(FALSE)
                \cup TitleLists \cup WithUnknown,
        b \in 0..MaxBlankLines}

(***************************************************************************)
(* generateStory (the streaming client of /api/generate-story)             *)
(***************************************************************************)
EMOTIONS == {"Curious", "Inspiring", "Funny", "Moral"}

BlockedPhrase == "Story generation was blocked"

\* what the endpoint does with one request: fetch rejects, or a response
\* arrives whose body is read in chunks (readFails: a read rejects after
\* the chunks were delivered)
FetchRejects == [kind |-> "reject"]
ErrorResponse(status, statusText, bodyKind) ==
    [kind |-> "response", ok |-> FALSE, status |-> status,
     statusText |-> statusText, bodyKind |-> bodyKind]
StreamResponse(hasBody, chunks, readFails) ==
    [kind |-> "response", ok |-> TRUE, status |-> "200", hasBody |-> hasBody,
     chunks |-> chunks, readFails |-> readFails]

\* the error field of the JSON body of a failed response ("json_error": a
\* text that depends on the status; "json_busy": the same text whatever the
\* status; "handler_json": the body a handler of this repository sent)
ServerError(status) ==
    IF status = "429" THEN <<"Too many requests.">>
    ELSE <<"AI service not configured on the server.">>

\* a text delivered whole, or cut into two chunks
Chunked(text, n) ==
    IF n = 1 \/ Len(text) < 2 THEN <<text>>
    ELSE <<SubSeq(text, 1, Len(text) \div 2),
           SubSeq(text, Len(text) \div 2 + 1, Len(text))>>

GoodEndpoints(d) == {StreamResponse(TRUE, Chunked(Render(d), n), FALSE) : n \in {1, 2}}

BadEndpoints ==
    {FetchRejects, StreamResponse(FALSE, <<>>, FALSE),
     StreamResponse(TRUE, <<>>, FALSE),
     StreamResponse(TRUE, <<<<"#", " ", "Title", NL>>>>, TRUE),
     StreamResponse(TRUE, <<<<BlockedPhrase, " ", "for safety reasons">>>>, FALSE)}
      \cup {ErrorResponse(st, tx, bk) :
              st \in {"429", "500"}, tx \in {<<>>, <<"Server Error">>},
              bk \in {"json_error", "json_busy", "json_no_error", "not_json",
                      "text_rejects"}}

GenerateStoryCatchRethrows(err) == err

\* the catch clause of generateStory: an AppError is rethrown as it is,
\* anything else becomes an APIError
GenerateStoryCatch(err) ==
    IF err.name \in AppErrorNames THEN err
    ELSE AppError("APIError",
             <<"An unexpected issue occurred. Please check your connection and try again. Details: ">>
               \o err.message)

\* the branch for !response.ok
ErrorResponseMessage(response) ==
    LET errorMsg == <<"The AI service failed with status: ", response.status, ".">>
    IN  CASE response.bodyKind = "json_error" -> ServerError(response.status)
          [] response.bodyKind = "json_busy" -> <<"The service is busy.">>
          [] response.bodyKind = "handler_json" ->
               IF "error" \in DOMAIN response.body /\ response.body.error # <<>>
               THEN response.body.error ELSE errorMsg
          [] response.bodyKind = "json_no_error" -> errorMsg
          [] OTHER -> IF response.statusText # <<>> THEN response.statusText ELSE errorMsg

StampEmotionFromText(partialStory, requestEmotion) ==
    ("emotion_tone" :> (IF "title" \in DOMAIN partialStory THEN partialStory["title"] ELSE <<>>))
      @@ partialStory

\* story.emotion_tone = emotion
StampEmotion(partialStory, requestEmotion) == ("emotion_tone" :> <<requestEmotion>>) @@ partialStory

Includes(text, phrase) == \E i \in 1..Len(text) : text[i] = phrase

ValidateStoryUnchecked(partialStory, markdown) ==
    Returned([story |-> partialStory, storyMarkdown |-> markdown])

\* the check of the required keys, and the return
ValidateStory(partialStory, markdown) ==
    IF Len(missingKeys(partialStory)) > 0
    THEN Thrown(AppError("StoryGenerationError", IncompleteMessage(missingKeys(partialStory))))
    ELSE Returned([story |-> partialStory, storyMarkdown |-> markdown])

\* generateStory once the stream has ended: the checks, the parse, the
\* stamp and the validation
GenerateStoryFinish(markdown, requestEmotion) ==
    IF Includes(markdown, BlockedPhrase)
    THEN Thrown(AppError("StoryGenerationError", markdown))
    ELSE IF markdown = <<>>
    THEN Thrown(AppError("StoryGenerationError",
             <<"The AI didn't generate a story. Please try adjusting your topic.">>))
    ELSE ValidateStory(StampEmotion(parseStoryFromMarkdown(markdown), requestEmotion), markdown)

\* if (!navigator.onLine) throw new NetworkError(): thrown before the try
GenerateStoryOffline ==
    Thrown(AppError("NetworkError",
        <<"It seems you're offline. Please check your internet connection and try again.">>))

\* what generateStory does when fetch settles: it throws, or (Pending) it
\* goes on to read the body
GenerateStoryOnResponse(ep) ==
    IF ep.kind = "reject"
    THEN Thrown(GenerateStoryCatch([name |-> "TypeError", message |-> <<"Failed to fetch">>]))
    ELSE IF ~ep.ok
    THEN IF ep.bodyKind = "text_rejects"
         THEN Thrown(GenerateStoryCatch(
                  [name |-> "TypeError", message |-> <<"Failed to read body">>]))
         ELSE Thrown(GenerateStoryCatch(AppError("APIError", ErrorResponseMessage(ep))))
    ELSE IF ~ep.hasBody
    THEN Thrown(GenerateStoryCatch(AppError("StoryGenerationError",
             <<"The AI service returned an empty response.">>)))
    ELSE Pending

\* what is thrown inside the try goes through the catch clause
ThroughCatch(outcome) ==
    IF outcome.state = "thrown" THEN Thrown(GenerateStoryCatch(outcome.error)) ELSE outcome

\* what generateStory does when the stream ends with markdown read
GenerateStoryOnStreamEnd(ep, markdown, requestEmotion) ==
    IF ep.readFails
    THEN Thrown(GenerateStoryCatch([name |-> "TypeError", message |-> <<"network error">>]))
    ELSE ThroughCatch(GenerateStoryFinish(markdown, requestEmotion))

RECURSIVE Concat(_)
Concat(chunks) == IF chunks = <<>> THEN <<>> ELSE Head(chunks) \o Concat(Tail(chunks))

\* the promise of one whole call of generateStory
generateStory(isOnline, ep, requestEmotion) ==
    IF ~isOnline THEN GenerateStoryOffline
    ELSE IF GenerateStoryOnResponse(ep) # Pending THEN GenerateStoryOnResponse(ep)
    ELSE GenerateStoryOnStreamEnd(ep, Concat(ep.chunks), requestEmotion)

VARIABLES
    online,          \* navigator.onLine
    doc,             \* the sections the generation endpoint writes
    endpoint,        \* what the endpoint does with the request
    emotion,         \* the emotion of the request
    gsPc,            \* where generateStory is
    storyMarkdown,   \* the text read from the stream so far
    unread,          \* the chunks not read yet
    gsResult         \* the promise generateStory returned

gsVars == <<online, doc, endpoint, emotion, gsPc, storyMarkdown, unread, gsResult>>

SmallDocs == {[sections |-> l, blank |-> 0] : l \in TitleLists}

GsInit ==
    /\ doc \in Docs
    /\ emotion \in EMOTIONS
    /\ \/ online = TRUE /\ endpoint \in GoodEndpoints(doc) /\ emotion = "Curious"
       \/ doc \in SmallDocs /\ online = TRUE /\ endpoint \in GoodEndpoints(doc)
       \/ doc = [sections |-> Plain("title"), blank |-> 0]
            /\ online \in BOOLEAN /\ endpoint \in BadEndpoints
    /\ gsPc = "start"
    /\ storyMarkdown = <<>>
    /\ unread = <<>>
    /\ gsResult = Pending

\* if (!navigator.onLine) throw new NetworkError(); ... await fetch(...)
GsCall ==
    /\ gsPc = "start"
    /\ IF ~online
       THEN /\ gsPc' = "done"
            /\ gsResult' = GenerateStoryOffline
       ELSE /\ gsPc' = "fetching"
            /\ UNCHANGED gsResult
    /\ UNCHANGED <<online, doc, endpoint, emotion, storyMarkdown, unread>>

\* fetch settles: the rejection, the !response.ok branch, the missing body,
\* or the reader is taken
GsResponse ==
    /\ gsPc = "fetching"
    /\ IF GenerateStoryOnResponse(endpoint) # Pending
       THEN /\ gsPc' = "done"
            /\ gsResult' = GenerateStoryOnResponse(endpoint)
            /\ UNCHANGED unread
       ELSE /\ gsPc' = "reading"
            /\ unread' = endpoint.chunks
            /\ UNCHANGED gsResult
    /\ UNCHANGED <<online, doc, endpoint, emotion, storyMarkdown>>

\* one reader.read() that delivers a chunk: storyMarkdown += decode(value)
GsReadChunk ==
    /\ gsPc = "reading"
    /\ unread # <<>>
    /\ storyMarkdown' = storyMarkdown \o Head(unread)
    /\ unread' = Tail(unread)
    /\ UNCHANGED <<online, doc, endpoint, emotion, gsPc, gsResult>>

\* the reader.read() after the last chunk: it rejects, or it says done and
\* generateStory runs to its end
GsReadDone ==
    /\ gsPc = "reading"
    /\ unread = <<>>
    /\ gsPc' = "done"
    /\ gsResult' = GenerateStoryOnStreamEnd(endpoint, storyMarkdown, emotion)
    /\ UNCHANGED <<online, doc, endpoint, emotion, storyMarkdown, unread>>

\* generateStory is not running
GsIdle ==
    /\ online = TRUE
    /\ doc = [sections |-> <<>>, blank |-> 0]
    /\ endpoint = FetchRejects
    /\ emotion = "Curious"
    /\ gsPc = "idle"
    /\ storyMarkdown = <<>>
    /\ unread = <<>>
    /\ gsResult = Pending

(***************************************************************************)
(* The encoder on its own: the samples of a narration and their WAV file.  *)
(***************************************************************************)
VARIABLES
    pcmData,         \* the decoded samples
    wavPc,           \* "raw", then "encoded"
    wav              \* the bytes of the Blob pcmToWav returns

wavVars == <<pcmData, wavPc, wav>>

SampleBytes == {0, 1, 255}

RECURSIVE BytesUpTo(_)
BytesUpTo(n) ==
    IF n = 0 THEN {<<>>}
    ELSE LET shorter == BytesUpTo(n - 1)
         IN  shorter \cup {Append(b, x) : b \in {y \in shorter : Len(y) = n - 1},
                                            x \in SampleBytes}

WavInit ==
    /\ pcmData \in BytesUpTo(MaxPcmLen)
    /\ wavPc = "raw"
    /\ wav = <<>>

Encode ==
    /\ wavPc = "raw"
    /\ wav' = pcmToWav(pcmData)
    /\ wavPc' = "encoded"
    /\ UNCHANGED pcmData

WavIdle ==
    /\ pcmData = <<>>
    /\ wavPc = "idle"
    /\ wav = <<>>

(***************************************************************************)
(* generateAudio: best-effort narration.                                   *)
(***************************************************************************)
Null == [kind |-> "null"]

\* the object URL of run r's narration: URL.createObjectURL(wavBlob)
ObjectUrl(r, blob) == [kind |-> "url", run |-> r, blob |-> blob]

\* what the narration endpoint does with one request: fetch rejects, the
\* 15 s timer aborts it, or a response arrives whose JSON body is read
AudioResponse(ok, body) == [kind |-> "response", ok |-> ok, body |-> body]
AudioBodies ==
    {[json |-> "invalid"], [json |-> "no_audio"],
     [json |-> "audio", valid |-> FALSE, bytes |-> <<>>],
     [json |-> "audio", valid |-> TRUE, bytes |-> <<1, 0>>]}
AudioEndpoints ==
    {[kind |-> "reject"], [kind |-> "abort"]}
      \cup {AudioResponse(FALSE, b) : b \in {[json |-> "invalid"], [json |-> "error"]}}
      \cup {AudioResponse(TRUE, b) : b \in AudioBodies}

GenerateAudioCatchRethrows(err) == Thrown(err)

\* the catch clause of generateAudio: a warning, and null
GenerateAudioCatch(err) == Returned(Null)

\* if (!navigator.onLine) return null
GenerateAudioOffline == Returned(Null)

\* what generateAudio does when fetch settles: Pending = it reads the body
GenerateAudioOnFetch(ep) ==
    CASE ep.kind = "reject" ->
           GenerateAudioCatch([name |-> "TypeError", message |-> <<"Failed to fetch">>])
      [] ep.kind = "abort" ->
           GenerateAudioCatch([name |-> "AbortError", message |-> <<"The user aborted a request.">>])
      [] OTHER -> Pending

\* what generateAudio does when response.json() settles
GenerateAudioOnBody(ep, r) ==
    IF ~ep.ok
    THEN GenerateAudioCatch(AppError("TTSError",
             IF ep.body.json = "error" THEN <<"Failed to generate audio narration for the story.">>
             ELSE <<"Audio generation service failed.">>))
    ELSE CASE ep.body.json = "invalid" ->
                GenerateAudioCatch([name |-> "SyntaxError", message |-> <<"Unexpected token">>])
           [] ep.body.json = "no_audio" -> Returned(Null)
           [] ep.body.json = "audio" /\ ~ep.body.valid ->
                \* atob throws in decode
                GenerateAudioCatch([name |-> "InvalidCharacterError",
                                    message |-> <<"The string to be decoded is not correctly encoded.">>])
           [] OTHER -> Returned(ObjectUrl(r, pcmToWav(ep.body.bytes)))

(***************************************************************************)
(* The useStoryGenerator hook.  A run is one call of startStoryGeneration. *)
(***************************************************************************)
MaxRuns == 2
Runs == 1..MaxRuns

VARIABLES
    story,           \* useState<Story | null>
    audioUrl,        \* useState<string | null>
    isLoading,
    error,           \* useState<Error | null>: rethrown for the ErrorBoundary
    view,            \* 'form' | 'output'
    audioState,      \* 'idle' | 'loading' | 'success' | 'failed'
    creditsUsed,     \* the calls of useStoryCredit
    runs,            \* the calls of startStoryGeneration
    objectUrls,      \* the object URLs created and not revoked
    user,            \* useAuth: useState<User | null>
    guestStoryCount, \* useAuth: useState<number>
    showLoginModal   \* MainScreen: useState(false)

hookVars == <<story, audioUrl, isLoading, error, view, audioState, creditsUsed, runs,
              objectUrls, user, guestStoryCount, showLoginModal>>

\* the variables of useAuth and of MainScreen
authVars == <<user, guestStoryCount, showLoginModal>>

UnusedRun ==
    [pc |-> "unused", emotion |-> "Curious", narrationText |-> <<>>,
     audioEndpoint |-> Null, audio |-> Pending, result |-> Pending,
     superseded |-> FALSE, responds |-> TRUE, countAtCall |-> 0]

\* the texts the hook's runs get from the generation endpoint
HookDocs ==
    {[sections |-> l, blank |-> 0] :
        l \in {Plain("title") \o Plain("introduction") \o Plain("emotional_trigger")
                 \o Plain("concept_explanation") \o Plain("resolution")
                 \o Plain("moral_message"),
               Plain("title") \o Padded("introduction")
                 \o Plain("concept_explanation") \o Plain("resolution")
                 \o Plain("moral_message"),
               Plain("title") \o Plain("resolution")}}

HookEndpoints ==
    {StreamResponse(TRUE, <<Render(d)>>, FALSE) : d \in HookDocs}
      \cup {FetchRejects, ErrorResponse("500", <<>>, "json_error"),
            ErrorResponse("429", <<>>, "json_no_error")}

\* the emotions the form of the hook's runs sends
HookEmotions == {"Curious", "Funny"}

\* the outcomes of generateStory a run can meet, with the emotion requested
StoryOutcomes ==
    {[requestEmotion |-> e, outcome |-> generateStory(on, ep, e)] :
        e \in HookEmotions, on \in BOOLEAN, ep \in HookEndpoints}

RECURSIVE JoinTexts(_, _)
JoinTexts(texts, sep) ==
    IF texts = <<>> THEN <<>>
    ELSE IF Len(texts) = 1 THEN texts[1]
    ELSE texts[1] \o sep \o JoinTexts(Tail(texts), sep)

\* [title, ..., moral_message].filter(Boolean).join('\n\n')
storyTextForNarration(generatedStory) ==
    LET fields == <<"title", "introduction", "emotional_trigger",
                    "concept_explanation", "resolution", "moral_message">>
        set == SelectSeq(fields, LAMBDA k : Truthy(generatedStory, k))
    IN  JoinTexts([i \in 1..Len(set) |-> generatedStory[set[i]]], <<NL, NL>>)

\* message.includes('not configured') || message.toLowerCase().includes('api key')
MentionsApiKey(message) ==
    \E i \in 1..Len(message) :
        message[i] \in {"AI service not configured on the server.",
                        "The API key provided is invalid. Please check the configuration."}

\* a user restored from localStorage
SignedIn == [kind |-> "user"]

HookInit ==
    /\ story = Null
    /\ audioUrl = Null
    /\ isLoading = FALSE
    /\ error = Null
    /\ view = "form"
    /\ audioState = "idle"
    /\ creditsUsed = 0
    /\ runs = [r \in Runs |-> UnusedRun]
    /\ objectUrls = {}
    /\ \/ user = Null /\ guestStoryCount \in {0, 1}
       \/ user = SignedIn /\ guestStoryCount = 0
    /\ showLoginModal = FALSE

hasStoryCreditTwoTrials == IF user # Null THEN TRUE ELSE guestStoryCount < 2

\* hasStoryCredit of useAuth
hasStoryCredit == IF user # Null THEN TRUE ELSE guestStoryCount < 1

\* the form is shown and its fields and button are enabled
FormEnabled == error = Null /\ view = "form" /\ ~isLoading

CountAfterCreditForgotten(run) == guestStoryCount

\* useStoryCredit of useAuth as the call of startStoryGeneration holds it:
\* the count it adds to is the one of the render that made the call
CountAfterCredit(run) == IF user = Null THEN run.countAtCall + 1 ELSE guestStoryCount

\* the form is submitted: startStoryGeneration up to its await; responds
\* is false when the browser is online and the endpoint never settles the
\* fetch or a read of generateStory, which waits for them without a timer
HookStart(r) ==
    /\ FormEnabled
    /\ hasStoryCredit
    /\ runs[r].pc = "unused"
    /\ \A q \in Runs : q < r => runs[q].pc # "unused"
    /\ \E e \in HookEmotions, answered \in BOOLEAN :
          runs' = [q \in Runs |->
                     IF q = r THEN [runs[q] EXCEPT !.pc = "generateStory", !.emotion = e,
                                                   !.responds = answered,
                                                   !.countAtCall = guestStoryCount]
                     ELSE [runs[q] EXCEPT !.superseded = TRUE]]
    /\ view' = "output"
    /\ isLoading' = TRUE
    /\ story' = Null
    /\ audioUrl' = Null
    /\ error' = Null
    /\ audioState' = "loading"
    /\ UNCHANGED <<creditsUsed, objectUrls, authVars>>

\* generateStory returns: the story is shown, a credit is used, the
\* narration is requested (generateAudio runs up to its fetch) and
\* startStoryGeneration returns success
HookStoryReturned(r) ==
    /\ runs[r].pc = "generateStory"
    /\ \E o \in StoryOutcomes, audioOnline \in BOOLEAN :
        LET outcome == o.outcome
        IN
          /\ o.requestEmotion = runs[r].emotion
          /\ runs[r].responds
          /\ outcome.state = "returned"
          /\ story' = [kind |-> "story", run |-> r, fields |-> outcome.value.story]
          /\ runs' = [runs EXCEPT
                 ![r].narrationText = storyTextForNarration(outcome.value.story),
                 ![r].pc = IF audioOnline THEN "audioFetch" ELSE "audioSettled",
                 ![r].audioEndpoint = IF audioOnline THEN Null ELSE [kind |-> "offline"],
                 ![r].audio = IF audioOnline THEN Pending ELSE GenerateAudioOffline,
                 ![r].result = Returned([success |-> TRUE])]
    /\ creditsUsed' = creditsUsed + 1
    /\ guestStoryCount' = CountAfterCredit(runs[r])
    /\ isLoading' = FALSE
    /\ UNCHANGED <<audioUrl, error, view, audioState, objectUrls, user, showLoginModal>>

\* generateStory throws: the catch clause of startStoryGeneration
HookStoryThrown(r) ==
    /\ runs[r].pc = "generateStory"
    /\ \E o \in StoryOutcomes :
          /\ o.requestEmotion = runs[r].emotion
          /\ runs[r].responds
          /\ o.outcome.state = "thrown"
          /\ LET err == o.outcome.error
                 needsKey == err.name = "APIError" /\ MentionsApiKey(err.message)
                 title == CASE err.name = "NetworkError" -> "Network Connection Error"
                            [] err.name = "APIError" -> "AI Service Error"
                            [] err.name = "StoryGenerationError" -> "Story Generation Failed"
                            [] OTHER -> "An Unexpected Error Occurred"
             IN  /\ error' = IF needsKey THEN error
                             ELSE [kind |-> "error", name |-> title, message |-> err.message]
                 /\ runs' = [runs EXCEPT
                        ![r].pc = "failed",
                        ![r].result =
                            IF needsKey
                            THEN Returned([success |-> FALSE, requiresApiKey |-> TRUE])
                            ELSE Returned([success |-> FALSE])]
    /\ audioState' = "failed"
    /\ isLoading' = FALSE
    /\ view' = "form"
    /\ UNCHANGED <<story, audioUrl, creditsUsed, objectUrls, authVars>>

\* the fetch of generateAudio settles
AudioFetchSettles(r) ==
    /\ runs[r].pc = "audioFetch"
    /\ \E ep \in AudioEndpoints :
          runs' = [runs EXCEPT
              ![r].audioEndpoint = ep,
              ![r].audio = GenerateAudioOnFetch(ep),
              ![r].pc = IF GenerateAudioOnFetch(ep) = Pending THEN "audioBody"
                        ELSE "audioSettled"]
    /\ UNCHANGED <<story, audioUrl, isLoading, error, view, audioState, creditsUsed,
                   objectUrls, authVars>>

\* the object URLs a settled generateAudio has created
CreatedBy(promise) ==
    IF promise.state = "returned" /\ promise.value # Null THEN {promise.value} ELSE {}

\* response.json() of generateAudio settles; URL.createObjectURL(wavBlob)
\* adds the URL it returns to the document's store
AudioBodySettles(r) ==
    /\ runs[r].pc = "audioBody"
    /\ runs' = [runs EXCEPT
           ![r].audio = GenerateAudioOnBody(runs[r].audioEndpoint, r),
           ![r].pc = "audioSettled"]
    /\ objectUrls' = objectUrls \cup CreatedBy(GenerateAudioOnBody(runs[r].audioEndpoint, r))
    /\ UNCHANGED <<story, audioUrl, isLoading, error, view, audioState, creditsUsed,
                   authVars>>

\* .then(url => { setAudioUrl(url); setAudioState(url ? 'success' : 'failed') })
AudioThen(r) ==
    /\ runs[r].pc = "audioSettled"
    /\ runs[r].audio.state = "returned"
    /\ audioUrl' = runs[r].audio.value
    /\ audioState' = IF runs[r].audio.value # Null THEN "success" ELSE "failed"
    /\ runs' = [runs EXCEPT ![r].pc = "audioDone"]
    /\ UNCHANGED <<story, isLoading, error, view, creditsUsed, objectUrls, authVars>>

\* "Create another story": handleReset
HookReset ==
    /\ error = Null
    /\ view = "output"
    /\ story' = Null
    /\ audioUrl' = Null
    /\ audioState' = "idle"
    /\ view' = "form"
    /\ error' = Null
    /\ runs' = [q \in Runs |-> [runs[q] EXCEPT !.superseded = (runs[q].pc # "unused")]]
    /\ UNCHANGED <<isLoading, creditsUsed, objectUrls, authVars>>

\* the form is submitted without a credit: handleSubmit opens the login
\* modal and returns
SubmitWithoutCredit ==
    /\ FormEnabled
    /\ ~hasStoryCredit
    /\ showLoginModal' = TRUE
    /\ UNCHANGED <<story, audioUrl, isLoading, error, view, audioState, creditsUsed, runs,
                   objectUrls, user, guestStoryCount>>

\* the login modal is dismissed
DismissLoginModal ==
    /\ showLoginModal
    /\ showLoginModal' = FALSE
    /\ UNCHANGED <<story, audioUrl, isLoading, error, view, audioState, creditsUsed, runs,
                   objectUrls, user, guestStoryCount>>

HookIdle ==
    /\ story = Null
    /\ audioUrl = Null
    /\ isLoading = FALSE
    /\ error = Null
    /\ view = "idle"
    /\ audioState = "idle"
    /\ creditsUsed = 0
    /\ runs = <<>>
    /\ objectUrls = {}
    /\ user = Null
    /\ guestStoryCount = 0
    /\ showLoginModal = FALSE

(***************************************************************************)
(* The /api/generate-story handler.                                        *)
(***************************************************************************)
\* the messages of the errors the AI client throws
AIErrorMessages ==
    {<<"7 ", "permission denied", " on resource">>,
     <<"Vertex AI ", "API is not enabled">>,
     <<"API_KEY_INVALID">>,
     <<"The project has no ", "billing account">>,
     <<"RESOURCE_EXHAUSTED">>}

\* what ai.models.generateContent does with one call: it throws, or it
\* returns a response with or without candidates, with or without data
AIThrows(message) == [kind |-> "throws", error |-> [name |-> "Error", message |-> message]]
AINoCandidates(blockReason) == [kind |-> "no_candidates", blockReason |-> blockReason]
AIContent(data) == [kind |-> "content", data |-> data]

StoryModelOutcomes ==
    {AIThrows(m) : m \in AIErrorMessages}
      \cup {AINoCandidates(Null), AINoCandidates([kind |-> "text", text |-> <<"SAFETY">>])}
      \cup {AIContent(<<"#", " ", "Title", ":", " ", "a", NL, "#", " ", "Introduction", ":", " ", "b", NL>>),
            AIContent(<<"a">>)}

\* candidates[0].content?.parts?.find(p => p.inlineData)?.inlineData?.data
AssetModelOutcomes ==
    {AIThrows(m) : m \in AIErrorMessages}
      \cup {AINoCandidates(Null), AIContent(Null), AIContent([kind |-> "base64", data |-> <<"AAA=">>])}

JsonResponse(statusCode, body) == [status |-> statusCode, body |-> body]

\* the Response fetch('/api/generate-story') resolves with when the handler
\* sent r with a status that is not 2xx: response.ok is false,
\* response.text() is the JSON body
HandlerResponse(r) ==
    [kind |-> "response", ok |-> FALSE, status |-> ToString(r.status),
     statusText |-> <<>>, bodyKind |-> "handler_json", body |-> r.body]

handleGoogleAIError(err, context) ==
    IF Includes(err.message, "permission denied") \/ Includes(err.message, "API is not enabled")
    THEN JsonResponse(403, [error |-> <<"The AI service permission is denied. Please ensure the Vertex AI API is enabled and the service account has the \"Vertex AI User\" role.">>])
    ELSE IF Includes(err.message, "API_KEY_INVALID")
    THEN JsonResponse(401, [error |-> <<"The API key provided is invalid. Please check the configuration.">>])
    ELSE IF Includes(err.message, "billing account")
    THEN JsonResponse(402, [error |-> <<"The project is not linked to a billing account, which is required for the AI service. Please enable billing in the Google Cloud Console.">>])
    ELSE JsonResponse(500, [error |-> <<"A critical error occurred on the server during ", context, ".">>])

\* the body of the async function of ttsPromise and of imagePromise after
\* its await
AssetPromise(outcome) ==
    CASE outcome.kind = "throws" -> Thrown(outcome.error)
      [] outcome.kind = "no_candidates" -> Returned(Null)
      [] OTHER -> Returned(outcome.data)

\* Promise.all([ttsPromise, imagePromise]) after one of the two settles
PromiseAll(all, tts, image) ==
    IF all # Pending THEN all
    ELSE IF tts.state = "thrown" THEN tts
    ELSE IF image.state = "thrown" THEN image
    ELSE IF tts.state = "returned" /\ image.state = "returned"
    THEN Returned(<<tts.value, image.value>>)
    ELSE Pending

RespondAfterAssetsAudioOptional(all, markdown) ==
    IF all.state = "thrown"
    THEN handleGoogleAIError(all.error, "story generation")
    ELSE JsonResponse(200, [storyMarkdown |-> markdown,
                            audioBase64 |-> all.value[1],
                            imageBase64 |-> all.value[2]])

\* the handler after await Promise.all
RespondAfterAssets(all, markdown) ==
    IF all.state = "thrown"
    THEN handleGoogleAIError(all.error, "story generation")
    ELSE LET audioBase64 == all.value[1]
             imageBase64 == all.value[2]
         IN  IF audioBase64 = Null
             THEN JsonResponse(500, [error |-> <<"Failed to generate audio narration. The AI may have had an issue with the voice model or the story content.">>])
             ELSE JsonResponse(200, [storyMarkdown |-> markdown,
                                     audioBase64 |-> audioBase64,
                                     imageBase64 |-> imageBase64])

VARIABLES
    req,               \* method, API_KEY set or not, body complete or not
    apiPc,             \* "start", "story", "assets", "done"
    apiStoryMarkdown,  \* storyResponse.text
    ttsPromise,
    imagePromise,
    assetsPromise,     \* Promise.all([ttsPromise, imagePromise])
    res                \* the response sent

apiVars == <<req, apiPc, apiStoryMarkdown, ttsPromise, imagePromise, assetsPromise, res>>

ApiInit ==
    /\ req \in [method : {"OPTIONS", "GET", "POST"}, apiKey : BOOLEAN, complete : BOOLEAN]
    /\ apiPc = "start"
    /\ apiStoryMarkdown = Null
    /\ ttsPromise = Pending
    /\ imagePromise = Pending
    /\ assetsPromise = Pending
    /\ res = Null

\* the handler up to its first await of the AI client
ApiRequest ==
    /\ apiPc = "start"
    /\ LET early ==
              IF req.method = "OPTIONS" THEN JsonResponse(200, [end |-> <<>>])
              ELSE IF req.method # "POST" THEN JsonResponse(405, [end |-> <<"Method ", req.method, " Not Allowed">>])
              ELSE IF ~req.apiKey
              THEN JsonResponse(500, [error |-> <<"AI service not configured on the server.">>])
              ELSE IF ~req.complete
              THEN JsonResponse(400, [error |-> <<"Missing required fields in the request.">>])
              ELSE Null
       IN  /\ res' = early
           /\ apiPc' = IF early = Null THEN "story" ELSE "done"
    /\ UNCHANGED <<req, apiStoryMarkdown, ttsPromise, imagePromise, assetsPromise>>

\* the story model answers: an error response, or the two asset calls start
ApiStoryResponse ==
    /\ apiPc = "story"
    /\ \E outcome \in StoryModelOutcomes :
          CASE outcome.kind = "throws" ->
                 /\ res' = handleGoogleAIError(outcome.error, "story generation")
                 /\ apiPc' = "done"
                 /\ UNCHANGED apiStoryMarkdown
            [] outcome.kind = "no_candidates" ->
                 /\ res' = JsonResponse(500, [error |->
                        IF outcome.blockReason # Null
                        THEN <<"Story generation was blocked for safety reasons: ">>
                               \o outcome.blockReason.text \o <<". Please try a different topic.">>
                        ELSE <<"The AI failed to generate story content. It might be a temporary issue.">>])
                 /\ apiPc' = "done"
                 /\ UNCHANGED apiStoryMarkdown
            [] OTHER ->
                 /\ apiStoryMarkdown' = [kind |-> "text", text |-> outcome.data]
                 /\ apiPc' = "assets"
                 /\ UNCHANGED res
    /\ UNCHANGED <<req, ttsPromise, imagePromise, assetsPromise>>

\* the narration model answers
TtsSettles ==
    /\ apiPc \in {"assets", "done"}
    /\ apiStoryMarkdown # Null
    /\ ttsPromise = Pending
    /\ \E outcome \in AssetModelOutcomes :
          /\ ttsPromise' = AssetPromise(outcome)
          /\ assetsPromise' = PromiseAll(assetsPromise, AssetPromise(outcome), imagePromise)
    /\ UNCHANGED <<req, apiPc, apiStoryMarkdown, imagePromise, res>>

\* the illustration model answers
ImageSettles ==
    /\ apiPc \in {"assets", "done"}
    /\ apiStoryMarkdown # Null
    /\ imagePromise = Pending
    /\ \E outcome \in AssetModelOutcomes :
          /\ imagePromise' = AssetPromise(outcome)
          /\ assetsPromise' = PromiseAll(assetsPromise, ttsPromise, AssetPromise(outcome))
    /\ UNCHANGED <<req, apiPc, apiStoryMarkdown, ttsPromise, res>>

\* await Promise.all settles: the response, or the catch clause
ApiRespond ==
    /\ apiPc = "assets"
    /\ assetsPromise # Pending
    /\ res' = RespondAfterAssets(assetsPromise, apiStoryMarkdown.text)
    /\ apiPc' = "done"
    /\ UNCHANGED <<req, apiStoryMarkdown, ttsPromise, imagePromise, assetsPromise>>

ApiIdle ==
    /\ req = Null
    /\ apiPc = "idle"
    /\ apiStoryMarkdown = Null
    /\ ttsPromise = Pending
    /\ imagePromise = Pending
    /\ assetsPromise = Pending
    /\ res = Null

(***************************************************************************)
(* The /api/generate-audio handler.  Its texts are sequences of single     *)
(* characters, so that Len is String.prototype.length: "a" and "b" are     *)
(* letters of the story, "T" and "M" letters of a heading, "r" a letter of *)
(* the echoed request block.                                               *)
(***************************************************************************)
MAX_TTS_CHARACTERS == 1500

MaxOverflow == 1
MaxNewlines == 3

Rep(c, n) == [i \in 1..n |-> c]

\* cleanStoryText.indexOf('---'): 0 when there is none
DelimiterAt(s) == {i \in 1..(Len(s) - 2) : s[i] = "-" /\ s[i + 1] = "-" /\ s[i + 2] = "-"}

FirstOrNone(positions) == IF positions = {} THEN 0 ELSE Min(positions)

IndexOfDelimiter(s) == FirstOrNone(DelimiterAt(s))

SubstringBefore(s, index) == IF index # 0 THEN SubSeq(s, 1, index - 1) ELSE s

\* 1. cleanStoryText.substring(0, requestBlockIndex)
RemoveRequestBlock(s) == SubstringBefore(s, IndexOfDelimiter(s))

\* ^ under the m flag: the start of the input or the position after a newline
LineStart(s, i) == i = 1 \/ s[i - 1] = NL

\* the positions at or after from where /^#\s+[^:\n]+:?\s*\n/m matches
HeadingLineStarts(s, from) ==
    {i \in from..Len(s) : s[i] = "#" /\ LineStart(s, i) /\ HeadingMatches(s, i) # {}}

\* the position of the newline that ends the match with "#" at i and parts t
HeadingLineEnd(i, t) == i + 1 + t[1] + t[2] + t[3] + t[4]

\* 2. replace(/^#\s+[^:\n]+:?\s*\n/gm, ''): every match, leftmost first, is
\* taken out; the search goes on after the match
RECURSIVE RemoveHeadingLinesFrom(_, _, _)
RemoveHeadingLinesFrom(s, from, starts) ==
    IF starts = {} THEN SubSeq(s, from, Len(s))
    ELSE SubSeq(s, from, Min(starts) - 1)
           \o RemoveHeadingLinesFrom(s,
                  HeadingLineEnd(Min(starts), FirstTried(HeadingMatches(s, Min(starts)))) + 1,
                  HeadingLineStarts(s,
                      HeadingLineEnd(Min(starts), FirstTried(HeadingMatches(s, Min(starts)))) + 1))

RemoveHeadingLines(s) == RemoveHeadingLinesFrom(s, 1, HeadingLineStarts(s, 1))

\* replace(/\n{3,}/g, '\n\n'): of a run of newlines the first two stay
KeptByCollapse(s) ==
    SelectSeq([i \in 1..Len(s) |-> i],
              LAMBDA i : ~(i > 2 /\ s[i] = NL /\ s[i - 1] = NL /\ s[i - 2] = NL))

\* the characters of s at the positions kept
CharsAt(s, kept) == [j \in 1..Len(kept) |-> s[kept[j]]]

CollapseNewlines(s) == CharsAt(s, KeptByCollapse(s))

\* steps 1 to 3: the request block, the heading lines, trim and collapse
CleanForNarration(markdown) ==
    CollapseNewlines(Trim(RemoveHeadingLines(RemoveRequestBlock(markdown))))

TruncateForTtsOffByOne(text) ==
    IF Len(text) > MAX_TTS_CHARACTERS THEN SubSeq(text, 1, MAX_TTS_CHARACTERS + 1) ELSE text

\* 4. if (cleanStoryText.length > MAX_TTS_CHARACTERS) substring(0, MAX_TTS_CHARACTERS)
TruncateForTts(text) ==
    IF Len(text) > MAX_TTS_CHARACTERS THEN SubSeq(text, 1, MAX_TTS_CHARACTERS) ELSE text

\* handleGoogleAIError of generate-audio.js
handleGoogleAIErrorAudio(err, context) ==
    IF Includes(err.message, "API_KEY_INVALID")
    THEN JsonResponse(401, [error |-> <<"The API key provided is invalid. Please check the configuration.">>])
    ELSE JsonResponse(500, [error |-> <<"A critical error occurred on the server during ", context, ".">>])

\* the texts a narration request carries: a head, a body and a tail
NarrationHeads ==
    {<<>>, <<"#", " ", "T", ":", NL>>, <<"#", " ", "T", NL>>,
     <<"#", " ", "T", ":", " ", "b", NL>>}
NarrationBodies ==
    {Rep("a", n) : n \in {0, 1} \cup (MAX_TTS_CHARACTERS - 1)..(MAX_TTS_CHARACTERS + MaxOverflow)}
      \cup {<<"a">> \o Rep(NL, k) \o <<"a">> : k \in 1..MaxNewlines}
      \cup {Rep("a", MAX_TTS_CHARACTERS - 1) \o Rep(NL, MaxNewlines) \o <<"a">>}
NarrationTails ==
    {<<>>, <<NL, "#", " ", "M">>, <<NL, "-", "-", "-", NL, "r", "r">>,
     <<NL, NL, NL>>, <<NL, "#", " ", "M", ":", NL, "b", NL>>}
NarrationTexts ==
    {h \o b \o t : h \in NarrationHeads, b \in NarrationBodies, t \in NarrationTails}

VARIABLES
    audioReq,        \* method, API_KEY set or not, req.body an object or not,
                     \* storyMarkdown, voice given or not
    audioApiPc,      \* "start", "tts", "done"
    cleanStoryText,  \* the text handed to the TTS model
    audioRes         \* the response sent

audioApiVars == <<audioReq, audioApiPc, cleanStoryText, audioRes>>

AudioApiInit ==
    /\ \/ audioReq \in [method : {"POST"}, apiKey : {TRUE}, hasBody : {TRUE}, voice : {TRUE},
                        storyMarkdown : NarrationTexts]
       \/ audioReq \in [method : {"OPTIONS", "GET", "POST"}, apiKey : BOOLEAN,
                        hasBody : {TRUE}, voice : BOOLEAN, storyMarkdown : {<<>>, <<"a">>}]
       \/ audioReq \in [method : {"OPTIONS", "GET", "POST"}, apiKey : BOOLEAN,
                        hasBody : {FALSE}, voice : {FALSE}, storyMarkdown : {<<>>}]
    /\ audioApiPc = "start"
    /\ cleanStoryText = Null
    /\ audioRes = Null

\* what the handler answers before it calls the TTS model, or Null, once
\* the text is cleaned and truncated
AudioApiEarly(r, cleaned) ==
    IF r.method = "OPTIONS" THEN JsonResponse(200, [end |-> <<>>])
    ELSE IF r.method # "POST"
    THEN JsonResponse(405, [end |-> <<"Method ", r.method, " Not Allowed">>])
    ELSE IF ~r.apiKey
    THEN JsonResponse(500, [error |-> <<"AI audio service not configured on the server.">>])
    ELSE IF ~r.hasBody
    THEN \* const { storyMarkdown, voice } = req.body throws in the try block
         handleGoogleAIErrorAudio(
             [name |-> "TypeError",
              message |-> <<"Cannot destructure property 'storyMarkdown' of 'req.body'">>],
             "audio generation")
    ELSE IF r.storyMarkdown = <<>> \/ ~r.voice
    THEN JsonResponse(400, [error |-> <<"Missing storyMarkdown or voice for audio generation.">>])
    ELSE IF cleaned = <<>>
    THEN JsonResponse(400, [error |-> <<"Cannot generate audio from an empty or malformed story.">>])
    ELSE Null

AudioApiProceeds(early, cleaned) ==
    /\ audioRes' = early
    /\ IF early = Null
       THEN /\ cleanStoryText' = [kind |-> "text", text |-> cleaned]
            /\ audioApiPc' = "tts"
       ELSE /\ cleanStoryText' = Null
            /\ audioApiPc' = "done"

AudioApiCleaned(cleaned) == AudioApiProceeds(AudioApiEarly(audioReq, cleaned), cleaned)

\* the handler up to its await of ai.models.generateContent
AudioApiRequest ==
    /\ audioApiPc = "start"
    /\ AudioApiCleaned(TruncateForTts(CleanForNarration(audioReq.storyMarkdown)))
    /\ UNCHANGED audioReq

\* the TTS model answers: the response, or the catch clause
AudioApiTtsAnswer ==
    /\ audioApiPc = "tts"
    /\ \E outcome \in AssetModelOutcomes :
          audioRes' =
             CASE outcome.kind = "throws" ->
                    handleGoogleAIErrorAudio(outcome.error, "audio generation")
               [] outcome.kind = "no_candidates" \/ outcome.data = Null ->
                    JsonResponse(500, [error |-> <<"Failed to generate audio narration for the story.">>])
               [] OTHER -> JsonResponse(200, [audioBase64 |-> outcome.data])
    /\ audioApiPc' = "done"
    /\ UNCHANGED <<audioReq, cleanStoryText>>

AudioApiIdle ==
    /\ audioReq = Null
    /\ audioApiPc = "idle"
    /\ cleanStoryText = Null
    /\ audioRes = Null

(***************************************************************************)
(* The App component that starts the narration and the illustration in     *)
(* the background.  A run is one call of its startStoryGeneration.         *)
(***************************************************************************)
MaxAppRuns == 1
AppRuns == 1..MaxAppRuns

\* the outcomes of generateStory with the emotion the form starts with
AppStoryOutcomes == {o.outcome : o \in {x \in StoryOutcomes : x.requestEmotion = "Curious"}}

\* what the illustration endpoint does with one request
ImageEndpoints == {"image", "null", "timeout", "error"}

ImageUrl(r) == [kind |-> "image", run |-> r]

\* the promise generateImage returns once its request has settled: the
\* image, or null when there is none or when the call's own timer expired,
\* or a rejection
generateImage(r, imageEndpoint) ==
    CASE imageEndpoint = "image" -> Returned(ImageUrl(r))
      [] imageEndpoint = "error" ->
           Thrown([name |-> "Error", message |-> <<"Image generation failed.">>])
      [] OTHER -> Returned(Null)

UnusedAppRun ==
    [pc |-> "unused", storyResult |-> Pending,
     audioPc |-> "none", audioEndpoint |-> Null, audio |-> Pending,
     imagePc |-> "none", imageEndpoint |-> "none", image |-> Pending]

VARIABLES
    appStory,        \* useState<Story | null>
    appAudioUrl,     \* useState<string | null>
    appImageUrl,     \* useState<string | null>
    appIsLoading,    \* useState<boolean>
    appError,        \* useState<Error | null>
    isApiKeyReady,   \* useState<boolean>
    appRuns,         \* the calls of startStoryGeneration
    appObjectUrls    \* the object URLs created and not revoked

appVars == <<appStory, appAudioUrl, appImageUrl, appIsLoading, appError, isApiKeyReady,
             appRuns, appObjectUrls>>

AppInit ==
    /\ appStory = Null
    /\ appAudioUrl = Null
    /\ appImageUrl = Null
    /\ appIsLoading = FALSE
    /\ appError = Null
    /\ isApiKeyReady = TRUE
    /\ appRuns = [r \in AppRuns |-> UnusedAppRun]
    /\ appObjectUrls = {}

\* the cleanup of the effect on audioUrl: when audioUrl changes, the URL it
\* held is revoked
AfterAudioUrlEffect(old, new, store) ==
    IF old # new /\ old # Null THEN store \ {old} ELSE store

\* the form is submitted: handleSubmit and startStoryGeneration up to its
\* await
AppStart(r) ==
    /\ appError = Null
    /\ isApiKeyReady
    /\ ~appIsLoading
    /\ appStory = Null
    /\ appRuns[r].pc = "unused"
    /\ \A q \in AppRuns : q < r => appRuns[q].pc # "unused"
    /\ appRuns' = [appRuns EXCEPT ![r].pc = "generateStory"]
    /\ appIsLoading' = TRUE
    /\ appStory' = Null
    /\ appAudioUrl' = Null
    /\ appImageUrl' = Null
    /\ appObjectUrls' = AfterAudioUrlEffect(appAudioUrl, Null, appObjectUrls)
    /\ UNCHANGED <<appError, isApiKeyReady>>

\* the run once generateStory has returned: generateAudio has run up to its
\* fetch (or has returned null offline) and generateImage is called
AppBackgroundCalls(run, outcome, audioOnline) ==
    [run EXCEPT
        !.pc = "returned",
        !.storyResult = outcome,
        !.audioPc = IF audioOnline THEN "fetch" ELSE "settled",
        !.audioEndpoint = IF audioOnline THEN Null ELSE [kind |-> "offline"],
        !.audio = IF audioOnline THEN Pending ELSE GenerateAudioOffline,
        !.imagePc = "pending"]

\* generateStory returns: the loader stops, the story is shown, and the
\* narration and the illustration are requested
AppStoryReturned(r) ==
    /\ appRuns[r].pc = "generateStory"
    /\ \E outcome \in AppStoryOutcomes, audioOnline \in BOOLEAN :
          /\ outcome.state = "returned"
          /\ appStory' = [kind |-> "story", run |-> r, fields |-> outcome.value.story]
          /\ appRuns' = [appRuns EXCEPT ![r] = AppBackgroundCalls(appRuns[r], outcome, audioOnline)]
    /\ appIsLoading' = FALSE
    /\ UNCHANGED <<appAudioUrl, appImageUrl, appError, isApiKeyReady, appObjectUrls>>

\* err instanceof APIError && (message.includes('not configured') || ...)
AppNeedsKey(err) == err.name = "APIError" /\ MentionsApiKey(err.message)

AppErrorTitle(err) ==
    CASE err.name = "NetworkError" -> "Network Connection Error"
      [] err.name = "APIError" -> "AI Service Error"
      [] err.name = "StoryGenerationError" -> "Story Generation Failed"
      [] OTHER -> "An Unexpected Error Occurred"

\* generateStory throws: the catch clause of startStoryGeneration
AppStoryThrown(r) ==
    /\ appRuns[r].pc = "generateStory"
    /\ \E outcome \in AppStoryOutcomes :
          /\ outcome.state = "thrown"
          /\ appRuns' = [appRuns EXCEPT ![r].pc = "failed", ![r].storyResult = outcome]
          /\ appError' = IF AppNeedsKey(outcome.error) THEN appError
                         ELSE [kind |-> "error", name |-> AppErrorTitle(outcome.error),
                               message |-> outcome.error.message]
          /\ isApiKeyReady' = (isApiKeyReady /\ ~AppNeedsKey(outcome.error))
    /\ appIsLoading' = FALSE
    /\ UNCHANGED <<appStory, appAudioUrl, appImageUrl, appObjectUrls>>

AppAudioOnFetchSharedAbort(run, ep) ==
    [run EXCEPT
        !.audioEndpoint = ep,
        !.audio = GenerateAudioOnFetch(ep),
        !.audioPc = IF GenerateAudioOnFetch(ep) = Pending THEN "body" ELSE "settled",
        !.image = IF ep.kind = "abort" /\ run.imagePc = "pending" THEN Returned(Null)
                  ELSE run.image,
        !.imagePc = IF ep.kind = "abort" /\ run.imagePc = "pending" THEN "settled"
                    ELSE run.imagePc]

\* the run once the fetch of generateAudio has settled: the controller and
\* the timer are generateAudio's own
AppAudioOnFetch(run, ep) ==
    [run EXCEPT
        !.audioEndpoint = ep,
        !.audio = GenerateAudioOnFetch(ep),
        !.audioPc = IF GenerateAudioOnFetch(ep) = Pending THEN "body" ELSE "settled"]

\* the fetch of generateAudio settles: a response, a rejection, or the abort
\* of its 15 s timer
AppAudioFetchSettles(r) ==
    /\ appRuns[r].audioPc = "fetch"
    /\ \E ep \in AudioEndpoints :
          appRuns' = [appRuns EXCEPT ![r] = AppAudioOnFetch(appRuns[r], ep)]
    /\ UNCHANGED <<appStory, appAudioUrl, appImageUrl, appIsLoading, appError, isApiKeyReady,
                   appObjectUrls>>

\* response.json() of generateAudio settles
AppAudioBodySettles(r) ==
    /\ appRuns[r].audioPc = "body"
    /\ appRuns' = [appRuns EXCEPT
           ![r].audio = GenerateAudioOnBody(appRuns[r].audioEndpoint, r),
           ![r].audioPc = "settled"]
    /\ appObjectUrls' =
          appObjectUrls \cup CreatedBy(GenerateAudioOnBody(appRuns[r].audioEndpoint, r))
    /\ UNCHANGED <<appStory, appAudioUrl, appImageUrl, appIsLoading, appError, isApiKeyReady>>

\* .then(setX).catch(() => setX(null)): the value set
ThenOrCatch(promise) == IF promise.state = "returned" THEN promise.value ELSE Null

\* generateAudio(...).then(setAudioUrl).catch(... setAudioUrl(null))
AppAudioThen(r) ==
    /\ appRuns[r].audioPc = "settled"
    /\ appAudioUrl' = ThenOrCatch(appRuns[r].audio)
    /\ appObjectUrls' =
          AfterAudioUrlEffect(appAudioUrl, ThenOrCatch(appRuns[r].audio), appObjectUrls)
    /\ appRuns' = [appRuns EXCEPT ![r].audioPc = "done"]
    /\ UNCHANGED <<appStory, appImageUrl, appIsLoading, appError, isApiKeyReady>>

\* the request of generateImage settles
AppImageSettles(r) ==
    /\ appRuns[r].imagePc = "pending"
    /\ \E ep \in ImageEndpoints :
          appRuns' = [appRuns EXCEPT
              ![r].imageEndpoint = ep,
              ![r].image = generateImage(r, ep),
              ![r].imagePc = "settled"]
    /\ UNCHANGED <<appStory, appAudioUrl, appImageUrl, appIsLoading, appError, isApiKeyReady,
                   appObjectUrls>>

\* generateImage(...).then(setImageUrl).catch(... setImageUrl(null))
AppImageThen(r) ==
    /\ appRuns[r].imagePc = "settled"
    /\ appImageUrl' = ThenOrCatch(appRuns[r].image)
    /\ appRuns' = [appRuns EXCEPT ![r].imagePc = "done"]
    /\ UNCHANGED <<appStory, appAudioUrl, appIsLoading, appError, isApiKeyReady,
                   appObjectUrls>>

\* "Create another story": handleReset
AppReset ==
    /\ appError = Null
    /\ ~appIsLoading
    /\ appStory # Null
    /\ appStory' = Null
    /\ appAudioUrl' = Null
    /\ appImageUrl' = Null
    /\ appObjectUrls' = AfterAudioUrlEffect(appAudioUrl, Null, appObjectUrls)
    /\ UNCHANGED <<appIsLoading, appError, isApiKeyReady, appRuns>>

AppIdle ==
    /\ appStory = Null
    /\ appAudioUrl = Null
    /\ appImageUrl = Null
    /\ appIsLoading = FALSE
    /\ appError = Null
    /\ isApiKeyReady = FALSE
    /\ appRuns = <<>>
    /\ appObjectUrls = {}

(***************************************************************************)
(* generateStoryAndAudio, the combined variants: the client of the         *)
(* /generate-story BFF, whose parser splits the markdown at its heading     *)
(* marks, and the streaming client of the model, whose parser has one      *)
(* regular expression per section.                                         *)
(***************************************************************************)
\* the length of the match of /^\s*#\s+/m that starts at position p, 0 if
\* there is none
SeparatorAt(s, p) ==
    LET h == p + WsRun(s, p)
    IN  IF LineStart(s, p) /\ h <= Len(s) /\ s[h] = "#" /\ WsRun(s, h + 1) >= 1
        THEN WsRun(s, p) + 1 + WsRun(s, h + 1)
        ELSE 0

\* s.substring(from - 1).split(/^\s*#\s+/m)
RECURSIVE SplitAtSeparators(_, _)
SplitAtSeparators(s, from) ==
    LET starts == {p \in from..Len(s) : SeparatorAt(s, p) > 0}
    IN  IF starts = {} THEN <<SubSeq(s, from, Len(s))>>
        ELSE <<SubSeq(s, from, Min(starts) - 1)>>
               \o SplitAtSeparators(s, Min(starts) + SeparatorAt(s, Min(starts)))

\* heading.toLowerCase().replace(/:$/, '').trim()
NormalizeHeading(heading) ==
    LET lowered == ToLowerCase(heading)
    IN  Trim(IF lowered # <<>> /\ lowered[Len(lowered)] = ":"
             THEN SubSeq(lowered, 1, Len(lowered) - 1)
             ELSE lowered)

\* the body of the loop over the sections
AssignSplitSection(partialStory, section) ==
    LET newlines == {i \in 1..Len(section) : section[i] = NL}
        firstNewlineIndex == FirstOrNone(newlines)
        heading == IF newlines = {} THEN Trim(section)
                   ELSE Trim(SubSeq(section, 1, firstNewlineIndex - 1))
        content == IF newlines = {} THEN <<>>
                   ELSE Trim(SubSeq(section, firstNewlineIndex + 1, Len(section)))
    IN  IF Trim(section) = <<>> THEN partialStory
        ELSE AssignSection(partialStory, NormalizeHeading(heading), content)

RECURSIVE SplitLoop(_, _)
SplitLoop(sections, partialStory) ==
    IF sections = <<>> THEN partialStory
    ELSE SplitLoop(Tail(sections), AssignSplitSection(partialStory, Head(sections)))

\* parseStoryFromMarkdown of the BFF client
parseStoryFromMarkdownBySplit(markdown) ==
    SplitLoop(SplitAtSeparators(Trim(markdown), 1), EmptyStory)

OccursAt(s, p, pattern) ==
    /\ p + Len(pattern) - 1 <= Len(s)
    /\ SubSeq(s, p, p + Len(pattern) - 1) = pattern

\* markdown.match(/# <Heading>\n([\s\S]*?)(?=\n# |$)/): the leftmost
\* heading line, the lazy group ending at the first "\n# " or at the end
SectionRegexMatch(s, key) ==
    LET pattern == <<"#", " ">> \o HeadingText(key) \o <<NL>>
        starts == {p \in 1..Len(s) : OccursAt(s, p, pattern)}
        groupStart == Min(starts) + Len(pattern)
        groupEnd == Min({q \in groupStart..(Len(s) + 1) :
                            q = Len(s) + 1 \/ OccursAt(s, q, <<NL, "#", " ">>)})
    IN  IF starts = {} THEN [found |-> FALSE]
        ELSE [found |-> TRUE, group |-> SubSeq(s, groupStart, groupEnd - 1)]

\* parseStoryFromMarkdown of the streaming client: a key is assigned if
\* its expression matches with a group that is not empty
parseStoryFromMarkdownByRegex(markdown) ==
    LET Assigned(key) == /\ SectionRegexMatch(markdown, key).found
                         /\ SectionRegexMatch(markdown, key).group # <<>>
    IN  [key \in {k \in StoryKeys : Assigned(k)} |->
            Trim(SectionRegexMatch(markdown, key).group)]

IncompleteStructure ==
    AppError("StoryGenerationError",
             <<"The AI didn't generate a complete story structure. Please try again or adjust your topic.">>)

\* Object.keys(story).length < 6, taken after story.emotion_tone is set
TooFewKeys(stamped) == Cardinality(DOMAIN stamped) < 6

\* the title and the five parts
HasAllSections(partialStory) == StoryKeys \subseteq DOMAIN partialStory

\* the stories the two clients can be sent: every section present or
\* absent, the title also with a colon and padding, an empty section
CombinedSectionLists ==
    {t \o i \o e \o c \o r \o m :
        t \in {Absent, Plain("title"), Padded("title")},
        i \in {Absent, Plain("introduction"), EmptyBare("introduction")},
        e \in {Absent, Plain("emotional_trigger")},
        c \in {Absent, Plain("concept_explanation")},
        r \in {Absent, Plain("resolution")},
        m \in {Absent, Plain("moral_message")}}

CombinedDocs == {[sections |-> l, blank |-> b] : l \in CombinedSectionLists, b \in 0..MaxBlankLines}

BlobUrl == <<"blob:audio/wav">>

VARIABLES
    combined,        \* the call: the variant, the markdown the service sends,
                     \* the emotion asked for, audioBase64 sent or not
    combinedPc,      \* "idle", "start", "tts", "done"
    combinedStory,   \* the local story once it is parsed and stamped, else Null
    combinedResult   \* the outcome of the call

combinedVars == <<combined, combinedPc, combinedStory, combinedResult>>

CombinedInit ==
    /\ combined \in [variant : {"bff", "stream"}, markdown : {Render(d) : d \in CombinedDocs},
                     requestEmotion : HookEmotions, audioBase64 : BOOLEAN]
    /\ combinedPc = "start"
    /\ combinedStory = Null
    /\ combinedResult = Pending

\* the BFF client from the answer of the BFF on
CombinedBffAnswered ==
    /\ combinedPc = "start"
    /\ combined.variant = "bff"
    /\ combinedPc' = "done"
    /\ IF combined.markdown = <<>>
       THEN /\ combinedStory' = Null
            /\ combinedResult' = Thrown(AppError("StoryGenerationError",
                   <<"The AI didn't generate a story. Please try adjusting your topic.">>))
       ELSE IF ~combined.audioBase64
       THEN /\ combinedStory' = Null
            /\ combinedResult' = Thrown(AppError("TTSError",
                   <<"The story was created, but audio narration failed. Please try again.">>))
       ELSE /\ combinedStory' = StampEmotion(parseStoryFromMarkdownBySplit(combined.markdown),
                                             combined.requestEmotion)
            /\ combinedResult' = IF TooFewKeys(combinedStory')
                                 THEN Thrown(IncompleteStructure)
                                 ELSE Returned([story |-> combinedStory', audioUrl |-> BlobUrl])
    /\ UNCHANGED combined

\* the streaming client from the end of the stream to the TTS request
CombinedStreamEnded ==
    /\ combinedPc = "start"
    /\ combined.variant = "stream"
    /\ combinedStory' = StampEmotion(parseStoryFromMarkdownByRegex(combined.markdown),
                                     combined.requestEmotion)
    /\ IF TooFewKeys(combinedStory')
       THEN combinedPc' = "done" /\ combinedResult' = Thrown(IncompleteStructure)
       ELSE combinedPc' = "tts" /\ combinedResult' = Pending
    /\ UNCHANGED combined

\* the TTS answer, with audio data or without
CombinedTtsAnswered ==
    /\ combinedPc = "tts"
    /\ combinedPc' = "done"
    /\ combinedResult' =
          IF combined.audioBase64
          THEN Returned([story |-> combinedStory, audioUrl |-> BlobUrl])
          ELSE Thrown(AppError("TTSError",
                   <<"The AI failed to generate audio narration for the story.">>))
    /\ UNCHANGED <<combined, combinedStory>>

CombinedIdle ==
    /\ combined = Null
    /\ combinedPc = "idle"
    /\ combinedStory = Null
    /\ combinedResult = Pending

(***************************************************************************)
(* useApiKey: the hook is called with the role chosen in the form; a       *)
(* change of the role makes a new checkApiKey, which the effect runs.      *)
(***************************************************************************)
USER_ROLES == {"Teacher", "Student", "Parent"}

MaxKeyChecks == 3
MaxPendingSelections == 1

KeyChecks == 1..MaxKeyChecks

\* a run of checkApiKey: the role its closure holds, and where it stands
UnusedCheck == [pc |-> "unused", role |-> "Teacher"]

CheckFailedMessage == <<"An error occurred while checking your API key status.">>
NoAiStudioMessage == <<"Cannot open API key selector: AI Studio environment not found.">>

VARIABLES
    userRole,              \* the argument of the hook at the last render
    aistudio,              \* window.aistudio is defined
    keyIsApiKeyReady,      \* the hook's isApiKeyReady
    isKeyCheckInProgress,
    apiKeyError,
    showApiKeyModal,
    keyChecks,             \* the runs of checkApiKey
    pendingSelections      \* the calls of openSelectKey not settled

keyVars == <<userRole, aistudio, keyIsApiKeyReady, isKeyCheckInProgress, apiKeyError,
             showApiKeyModal, keyChecks, pendingSelections>>

\* checkApiKey up to its return or its await, as run number c for a role
CheckApiKeyStarts(c, role) ==
    /\ apiKeyError' = Null
    /\ IF ~aistudio
       THEN /\ keyIsApiKeyReady' = TRUE
            /\ isKeyCheckInProgress' = FALSE
            /\ keyChecks' = [keyChecks EXCEPT ![c] = [pc |-> "done", role |-> role]]
       ELSE /\ isKeyCheckInProgress' = TRUE
            /\ keyChecks' = [keyChecks EXCEPT ![c] = [pc |-> "pending", role |-> role]]
            /\ UNCHANGED keyIsApiKeyReady

\* the state after the first render and its effect
KeyInit ==
    /\ userRole \in USER_ROLES
    /\ aistudio \in BOOLEAN
    /\ apiKeyError = Null
    /\ showApiKeyModal = FALSE
    /\ pendingSelections = 0
    /\ keyIsApiKeyReady = ~aistudio
    /\ isKeyCheckInProgress = aistudio
    /\ keyChecks = [c \in KeyChecks |->
                      IF c = 1
                      THEN [pc |-> IF aistudio THEN "pending" ELSE "done", role |-> userRole]
                      ELSE UnusedCheck]

\* the form sets another role: the hook renders with it and the effect
\* runs the new checkApiKey
SetUserRole(role, c) ==
    /\ role # userRole
    /\ keyChecks[c].pc = "unused"
    /\ \A b \in KeyChecks : b < c => keyChecks[b].pc # "unused"
    /\ userRole' = role
    /\ CheckApiKeyStarts(c, role)
    /\ UNCHANGED <<aistudio, showApiKeyModal, pendingSelections>>

\* userRole !== 'Student', with the role the run's closure holds
ModalOpensFor(role) == role # "Student"

\* hasSelectedApiKey() resolves
CheckResolves(c, hasKey) ==
    /\ keyChecks[c].pc = "pending"
    /\ keyIsApiKeyReady' = hasKey
    /\ showApiKeyModal' = IF ~hasKey /\ ModalOpensFor(keyChecks[c].role)
                          THEN TRUE ELSE showApiKeyModal
    /\ isKeyCheckInProgress' = FALSE
    /\ keyChecks' = [keyChecks EXCEPT ![c].pc = "done"]
    /\ UNCHANGED <<userRole, aistudio, apiKeyError, pendingSelections>>

\* hasSelectedApiKey() rejects
CheckRejects(c) ==
    /\ keyChecks[c].pc = "pending"
    /\ apiKeyError' = CheckFailedMessage
    /\ showApiKeyModal' = IF ModalOpensFor(keyChecks[c].role) THEN TRUE ELSE showApiKeyModal
    /\ isKeyCheckInProgress' = FALSE
    /\ keyChecks' = [keyChecks EXCEPT ![c].pc = "done"]
    /\ UNCHANGED <<userRole, aistudio, keyIsApiKeyReady, pendingSelections>>

\* handleSelectKey up to its await, or to its return without aistudio
SelectKeyStarts ==
    /\ IF aistudio
       THEN /\ pendingSelections < MaxPendingSelections
            /\ apiKeyError' = Null
            /\ pendingSelections' = pendingSelections + 1
       ELSE /\ apiKeyError' = NoAiStudioMessage
            /\ UNCHANGED pendingSelections
    /\ UNCHANGED <<userRole, aistudio, keyIsApiKeyReady, isKeyCheckInProgress,
                   showApiKeyModal, keyChecks>>

\* openSelectKey() resolves
SelectKeyResolves ==
    /\ pendingSelections > 0
    /\ pendingSelections' = pendingSelections - 1
    /\ keyIsApiKeyReady' = TRUE
    /\ showApiKeyModal' = FALSE
    /\ UNCHANGED <<userRole, aistudio, isKeyCheckInProgress, apiKeyError, keyChecks>>

\* openSelectKey() rejects, or the dialog is dismissed
SelectKeyRejects ==
    /\ pendingSelections > 0
    /\ pendingSelections' = pendingSelections - 1
    /\ UNCHANGED <<userRole, aistudio, keyIsApiKeyReady, isKeyCheckInProgress,
                   apiKeyError, showApiKeyModal, keyChecks>>

KeyIdle ==
    /\ userRole = "Teacher"
    /\ aistudio = FALSE
    /\ keyIsApiKeyReady = FALSE
    /\ isKeyCheckInProgress = FALSE
    /\ apiKeyError = Null
    /\ showApiKeyModal = FALSE
    /\ keyChecks = <<>>
    /\ pendingSelections = 0

vars == <<gsVars, wavVars, hookVars, apiVars, audioApiVars, appVars, combinedVars, keyVars>>

(***************************************************************************)
(* The specifications: one per component, the others idle.                 *)
(***************************************************************************)
GsStart == GsInit /\ WavIdle /\ HookIdle /\ ApiIdle /\ AudioApiIdle /\ AppIdle /\ CombinedIdle /\ KeyIdle

GsOthers == <<wavVars, hookVars, apiVars, audioApiVars, appVars, combinedVars, keyVars>>

GsNext ==
    \/ GsCall /\ UNCHANGED GsOthers
    \/ GsResponse /\ UNCHANGED GsOthers
    \/ GsReadChunk /\ UNCHANGED GsOthers
    \/ GsReadDone /\ UNCHANGED GsOthers

Spec == GsStart /\ [][GsNext]_vars

WavStart == WavInit /\ GsIdle /\ HookIdle /\ ApiIdle /\ AudioApiIdle /\ AppIdle /\ CombinedIdle /\ KeyIdle

WavOthers == <<gsVars, hookVars, apiVars, audioApiVars, appVars, combinedVars, keyVars>>

WavNext == Encode /\ UNCHANGED WavOthers

SpecWav == WavStart /\ [][WavNext]_vars

HookStarted == HookInit /\ GsIdle /\ WavIdle /\ ApiIdle /\ AudioApiIdle /\ AppIdle /\ CombinedIdle /\ KeyIdle

HookOthers == <<gsVars, wavVars, apiVars, audioApiVars, appVars, combinedVars, keyVars>>

HookNext ==
    \/ \E r \in Runs : HookStart(r) /\ UNCHANGED HookOthers
    \/ \E r \in Runs : HookStoryReturned(r) /\ UNCHANGED HookOthers
    \/ \E r \in Runs : HookStoryThrown(r) /\ UNCHANGED HookOthers
    \/ \E r \in Runs : AudioFetchSettles(r) /\ UNCHANGED HookOthers
    \/ \E r \in Runs : AudioBodySettles(r) /\ UNCHANGED HookOthers
    \/ \E r \in Runs : AudioThen(r) /\ UNCHANGED HookOthers
    \/ HookReset /\ UNCHANGED HookOthers
    \/ SubmitWithoutCredit /\ UNCHANGED HookOthers
    \/ DismissLoginModal /\ UNCHANGED HookOthers

SpecHook == HookStarted /\ [][HookNext]_vars

ApiStart == ApiInit /\ GsIdle /\ WavIdle /\ HookIdle /\ AudioApiIdle /\ AppIdle /\ CombinedIdle /\ KeyIdle

ApiOthers == <<gsVars, wavVars, hookVars, audioApiVars, appVars, combinedVars, keyVars>>

ApiNext ==
    \/ ApiRequest /\ UNCHANGED ApiOthers
    \/ ApiStoryResponse /\ UNCHANGED ApiOthers
    \/ TtsSettles /\ UNCHANGED ApiOthers
    \/ ImageSettles /\ UNCHANGED ApiOthers
    \/ ApiRespond /\ UNCHANGED ApiOthers

SpecApi == ApiStart /\ [][ApiNext]_vars

AudioApiStart == AudioApiInit /\ GsIdle /\ WavIdle /\ HookIdle /\ ApiIdle /\ AppIdle /\ CombinedIdle /\ KeyIdle

AudioApiOthers == <<gsVars, wavVars, hookVars, apiVars, appVars, combinedVars, keyVars>>

AudioApiNext ==
    \/ AudioApiRequest /\ UNCHANGED AudioApiOthers
    \/ AudioApiTtsAnswer /\ UNCHANGED AudioApiOthers

SpecAudioApi == AudioApiStart /\ [][AudioApiNext]_vars

AppStarted == AppInit /\ GsIdle /\ WavIdle /\ HookIdle /\ ApiIdle /\ AudioApiIdle /\ CombinedIdle /\ KeyIdle

AppOthers == <<gsVars, wavVars, hookVars, apiVars, audioApiVars, combinedVars, keyVars>>

AppNext ==
    \/ \E r \in AppRuns : AppStart(r) /\ UNCHANGED AppOthers
    \/ \E r \in AppRuns : AppStoryReturned(r) /\ UNCHANGED AppOthers
    \/ \E r \in AppRuns : AppStoryThrown(r) /\ UNCHANGED AppOthers
    \/ \E r \in AppRuns : AppAudioFetchSettles(r) /\ UNCHANGED AppOthers
    \/ \E r \in AppRuns : AppAudioBodySettles(r) /\ UNCHANGED AppOthers
    \/ \E r \in AppRuns : AppAudioThen(r) /\ UNCHANGED AppOthers
    \/ \E r \in AppRuns : AppImageSettles(r) /\ UNCHANGED AppOthers
    \/ \E r \in AppRuns : AppImageThen(r) /\ UNCHANGED AppOthers
    \/ AppReset /\ UNCHANGED AppOthers

SpecApp == AppStarted /\ [][AppNext]_vars

CombinedStart == CombinedInit /\ GsIdle /\ WavIdle /\ HookIdle /\ ApiIdle /\ AudioApiIdle /\ AppIdle /\ KeyIdle

CombinedOthers == <<gsVars, wavVars, hookVars, apiVars, audioApiVars, appVars, keyVars>>

CombinedNext ==
    \/ CombinedBffAnswered /\ UNCHANGED CombinedOthers
    \/ CombinedStreamEnded /\ UNCHANGED CombinedOthers
    \/ CombinedTtsAnswered /\ UNCHANGED CombinedOthers

SpecCombined == CombinedStart /\ [][CombinedNext]_vars

KeyStart == KeyInit /\ GsIdle /\ WavIdle /\ HookIdle /\ ApiIdle /\ AudioApiIdle /\ AppIdle /\ CombinedIdle

KeyOthers == <<gsVars, wavVars, hookVars, apiVars, audioApiVars, appVars, combinedVars>>

KeyNext ==
    \/ \E role \in USER_ROLES, c \in KeyChecks : SetUserRole(role, c) /\ UNCHANGED KeyOthers
    \/ \E c \in KeyChecks, hasKey \in BOOLEAN : CheckResolves(c, hasKey) /\ UNCHANGED KeyOthers
    \/ \E c \in KeyChecks : CheckRejects(c) /\ UNCHANGED KeyOthers
    \/ SelectKeyStarts /\ UNCHANGED KeyOthers
    \/ SelectKeyResolves /\ UNCHANGED KeyOthers
    \/ SelectKeyRejects /\ UNCHANGED KeyOthers

SpecKey == KeyStart /\ [][KeyNext]_vars

\* C1: the file is 44 + N bytes long, its RIFF size field (bytes 4-7) is
\* 36 + N, its data size field (bytes 40-43) is N, its format code (bytes
\* 20-21) is 1, and the bytes from 44 on are the samples.
FieldU32(bytes, offset) ==
    bytes[offset + 1] + 256 * bytes[offset + 2] + 65536 * bytes[offset + 3]
      + 16777216 * bytes[offset + 4]
FieldU16(bytes, offset) == bytes[offset + 1] + 256 * bytes[offset + 2]
WavHeaderInvariant ==
    wavPc = "encoded"
    => LET N == Len(pcmData)
       IN  /\ Len(wav) = 44 + N
           /\ FieldU32(wav, 4) = 36 + N
           /\ FieldU32(wav, 40) = N
           /\ FieldU16(wav, 20) = 1
           /\ SubSeq(wav, 45, 44 + N) = pcmData
EmptyPayloadEncoded == wavPc = "encoded" /\ pcmData = <<>> /\ Len(wav) = 44

(***************************************************************************)
(* Properties of the parser and the validator, checked under Spec.         *)
(***************************************************************************)
\* generateStory has run to its validation: the whole text was read, it
\* is not empty and it is not the message of a safety block
ReachedValidation ==
    /\ gsPc = "done"
    /\ online
    /\ endpoint.kind = "response" /\ endpoint.ok /\ endpoint.hasBody
    /\ ~endpoint.readFails
    /\ storyMarkdown # <<>>
    /\ ~Includes(storyMarkdown, BlockedPhrase)

\* the sections of doc that stand under a heading line of their own
HeadingSections == {i \in 1..Len(doc.sections) : ~doc.sections[i].inline}
HasHeadingLine(key) == \E i \in HeadingSections : doc.sections[i].key = key
BodyOf(key) ==
    doc.sections[CHOOSE i \in HeadingSections : doc.sections[i].key = key].body

FiveRequired ==
    {"title", "introduction", "concept_explanation", "resolution", "moral_message"}

\* C2: a text with all six headings, each on a line of its own and with a
\* body that is not blank, validates, and every field of the story is the
\* trimmed body of its section.
RoundTripCompleteness ==
    (/\ ReachedValidation
     /\ \A k \in StoryKeys : HasHeadingLine(k) /\ Trim(BodyOf(k)) # <<>>)
    => /\ gsResult.state = "returned"
       /\ \A k \in StoryKeys : gsResult.value.story[k] = Trim(BodyOf(k))

\* C3: what the section loop assigns to a key is the trimmed text between
\* that section's heading line and the next heading line or the end.
SectionContentIsBody ==
    ReachedValidation
    => LET sections == ParseSections(storyMarkdown, 1, EmptyStory)
       IN  \A k \in DOMAIN sections :
              HasHeadingLine(k) /\ sections[k] = Trim(BodyOf(k))

\* C4: when the section loop matched a title heading, the title stays what
\* the loop assigned: the inline-title fallback does not replace it.
FallbackOnlyWithoutTitleHeading ==
    ReachedValidation
    => LET sections == ParseSections(storyMarkdown, 1, EmptyStory)
       IN  "title" \in DOMAIN sections
             => parseStoryFromMarkdown(storyMarkdown)["title"] = sections["title"]

\* C5: the story parsed from a text equals the story parsed from the text
\* without its sections under unknown headings.
KnownSections(secs) == SelectSeq(secs, LAMBDA sec : sec.key \in StoryKeys)
UnknownHeadingsIgnored ==
    ReachedValidation
    => parseStoryFromMarkdown(storyMarkdown)
         = parseStoryFromMarkdown(
               RenderSections(KnownSections(doc.sections), doc.blank))

\* C6: the validation succeeds exactly when the five required fields are
\* there and not blank; emotional_trigger, present, absent or empty, does
\* not change the outcome.
WithoutKey(parsed, key) == [k \in DOMAIN parsed \ {key} |-> parsed[k]]
ValidationIffRequiredPresent ==
    ReachedValidation
    => LET parsed == parseStoryFromMarkdown(storyMarkdown)
           complete == \A k \in FiveRequired : Truthy(parsed, k) /\ Trim(parsed[k]) # <<>>
       IN  /\ (gsResult.state = "returned") <=> complete
           /\ (gsResult.state = "thrown") <=> ~complete
           /\ (missingKeys(parsed) = <<>>)
                <=> (missingKeys(WithoutKey(parsed, "emotional_trigger")) = <<>>)
           /\ (missingKeys(parsed) = <<>>)
                <=> (missingKeys(("emotional_trigger" :> <<>>) @@ parsed) = <<>>)
ValidationWithoutTrigger ==
    /\ ReachedValidation
    /\ gsResult.state = "returned"
    /\ "emotional_trigger" \notin DOMAIN gsResult.value.story

\* C7: when required fields are missing or blank, generateStory throws a
\* StoryGenerationError whose message names exactly those fields.
MessageNamesEveryMissingKey ==
    ReachedValidation
    => LET parsed == parseStoryFromMarkdown(storyMarkdown)
           missing == {k \in FiveRequired : ~Truthy(parsed, k) \/ Trim(parsed[k]) = <<>>}
       IN  missing # {}
             => /\ gsResult.state = "thrown"
                /\ gsResult.error.name = "StoryGenerationError"
                /\ {k \in StoryKeys : Includes(gsResult.error.message, k)} = missing
TwoKeysMissing ==
    /\ ReachedValidation
    /\ gsResult.state = "thrown"
    /\ {k \in StoryKeys : Includes(gsResult.error.message, k)}
         = {"introduction", "resolution"}

\* C8: the emotion_tone of a returned story is the emotion of the request,
\* whatever the text was.
EmotionToneIsRequestEmotion ==
    gsResult.state = "returned"
    => gsResult.value.story["emotion_tone"] = <<emotion>>
ReturnedFunnyStory ==
    /\ gsResult.state = "returned"
    /\ emotion = "Funny"
    /\ gsResult.value.story["title"] # <<"Funny">>

\* C9: every failure of the narration call (client offline, fetch rejected,
\* timeout/abort, non-2xx status, unreadable body, response without
\* audioBase64, undecodable base64) makes generateAudio resolve to null, and
\* the hook's callback for it leaves the story, the error and the view as
\* they are, sets audioUrl to null and audioState to 'failed', the call of
\* startStoryGeneration having returned success.
NarrationFailed(ep) ==
    \/ ep.kind \in {"offline", "reject", "abort"}
    \/ /\ ep.kind = "response"
       /\ \/ ~ep.ok
          \/ ep.body.json # "audio"
          \/ ~ep.body.valid
BestEffortNarration ==
    [][\A r \in Runs :
         /\ (runs[r].pc # "audioSettled" /\ runs'[r].pc = "audioSettled")
              => /\ runs'[r].audio.state = "returned"
                 /\ runs'[r].result = Returned([success |-> TRUE])
                 /\ NarrationFailed(runs'[r].audioEndpoint)
                      => runs'[r].audio = Returned(Null)
         /\ (runs[r].pc = "audioSettled" /\ runs'[r].pc = "audioDone"
               /\ NarrationFailed(runs[r].audioEndpoint))
              => /\ story' = story
                 /\ error' = error
                 /\ view' = view
                 /\ isLoading' = isLoading
                 /\ audioUrl' = Null
                 /\ audioState' = "failed"
                 /\ runs'[r].result = Returned([success |-> TRUE])]_vars
NarrationTimedOutStoryShown ==
    \E r \in Runs :
        /\ runs[r].pc = "audioDone"
        /\ runs[r].audioEndpoint.kind = "abort"
        /\ runs[r].audio = Returned(Null)
        /\ runs[r].result = Returned([success |-> TRUE])
        /\ story # Null /\ story.run = r
        /\ view = "output"
        /\ error = Null
        /\ audioUrl = Null
        /\ audioState = "failed"

\* C10 as stated: once the story text has been generated, a failure of the
\* narration call or of the illustration call (a thrown error or a response
\* without candidates) never fails the request: the response carries the
\* story, with null for the asset that failed.
AssetFailed(promise) == promise.state = "thrown" \/ promise = Returned(Null)
TransportFailed == ~online \/ endpoint.kind = "reject"

OfflineOrRejectIsNetworkError ==
    (gsPc = "done" /\ TransportFailed) =>
        /\ gsResult.state = "thrown"
        /\ gsResult.error.name = "NetworkError"

(***************************************************************************)
(* C16: a 429 response of the generation endpoint becomes an APIError      *)
(* whose message no other non-success status produces.                     *)
(***************************************************************************)
FailedWith(e, status) == e.kind = "response" /\ ~e.ok /\ e.status = status

RateLimitMessageDistinct ==
    (gsPc = "done" /\ online /\ FailedWith(endpoint, "429")) =>
        /\ gsResult.state = "thrown"
        /\ gsResult.error.name = "APIError"
        /\ \A e \in BadEndpoints :
              (e.kind = "response" /\ ~e.ok /\ e.status # "429") =>
                  GenerateStoryOnResponse(e).error.message # gsResult.error.message

(***************************************************************************)
(* C18: whatever fails in generateStory (the request, the read of the      *)
(* stream, the parse, the validation), the caller gets a NetworkError, an  *)
(* APIError or a StoryGenerationError, never a raw error.                  *)
(***************************************************************************)
FailuresAreAppErrors ==
    gsResult.state = "thrown" =>
        gsResult.error.name \in {"NetworkError", "APIError", "StoryGenerationError"}

\* a read of the stream rejected with a TypeError, and generateStory threw
StreamReadFailedTyped ==
    /\ gsPc = "done"
    /\ endpoint.kind = "response" /\ endpoint.ok /\ endpoint.hasBody /\ endpoint.readFails
    /\ gsResult.state = "thrown"
    /\ gsResult.error.name = "APIError"

(***************************************************************************)
(* C17: when the /api/generate-story handler signals a safety block, the   *)
(* caller of generateStory gets a StoryGenerationError, not an APIError,   *)
(* whose message carries the block reason of the provider.                 *)
(***************************************************************************)
SafetyBlockSignalled ==
    /\ apiPc = "done"
    /\ res # Null
    /\ res.status = 500
    /\ "error" \in DOMAIN res.body
    /\ Includes(res.body.error, "Story generation was blocked for safety reasons: ")

SafetyBlockIsStoryGenerationError ==
    SafetyBlockSignalled =>
        \A e \in EMOTIONS :
            /\ generateStory(TRUE, HandlerResponse(res), e).state = "thrown"
            /\ generateStory(TRUE, HandlerResponse(res), e).error.name = "StoryGenerationError"
            /\ Includes(generateStory(TRUE, HandlerResponse(res), e).error.message, "SAFETY")


\* C13: the text sent to the TTS model has at most MAX_TTS_CHARACTERS
\* characters; when the cleaned text is longer, the text sent is exactly its
\* first MAX_TTS_CHARACTERS characters and the handler went on to the TTS
\* call instead of answering with an error
AcceptedNarrationRequest ==
    /\ audioApiPc \in {"tts", "done"}
    /\ audioReq.method = "POST" /\ audioReq.apiKey /\ audioReq.hasBody /\ audioReq.voice

FirstCharactersOf(sent, cleaned) ==
    /\ Len(sent) = MAX_TTS_CHARACTERS
    /\ \A i \in 1..MAX_TTS_CHARACTERS : sent[i] = cleaned[i]

SentWithinBudget(cleaned) ==
    Len(cleaned) > MAX_TTS_CHARACTERS =>
       /\ cleanStoryText # Null
       /\ FirstCharactersOf(cleanStoryText.text, cleaned)
       /\ audioApiPc = "tts" => audioRes = Null

TtsInputWithinBudget ==
    /\ cleanStoryText # Null => Len(cleanStoryText.text) <= MAX_TTS_CHARACTERS
    /\ AcceptedNarrationRequest =>
          SentWithinBudget(CleanForNarration(audioReq.storyMarkdown))

LongStoryTruncated ==
    /\ AcceptedNarrationRequest
    /\ Len(CleanForNarration(audioReq.storyMarkdown)) > MAX_TTS_CHARACTERS
    /\ audioApiPc = "tts"
    /\ Len(cleanStoryText.text) = MAX_TTS_CHARACTERS

\* C14: the text sent to narration has nothing of the request block that
\* starts at the first '---', has no heading line ('# <name>' at the start of
\* a line, with or without content after it, with or without a newline
\* after it), and has no run of three or more newlines
HeadingLineIn(s) ==
    \E i \in 1..(Len(s) - 1) : LineStart(s, i) /\ s[i] = "#" /\ s[i + 1] = " "

HasRequestBlock(s) == DelimiterAt(s) # {} \/ \E i \in 1..Len(s) : s[i] = "r"

HasNewlineRun(s) ==
    \E i \in 1..(Len(s) - 2) : s[i] = NL /\ s[i + 1] = NL /\ s[i + 2] = NL

CleanedTextIsNarrationOnly ==
    cleanStoryText # Null =>
       /\ ~HasRequestBlock(cleanStoryText.text)
       /\ ~HeadingLineIn(cleanStoryText.text)
       /\ ~HasNewlineRun(cleanStoryText.text)


\* C19: a call of startStoryGeneration ends, and isLoading becomes false,
\* also when the text endpoint never answers: as long as the story is
\* loading, the step that resumes startStoryGeneration from generateStory
\* (with a story, or with an error such as that call's timeout) can be taken
StoryCallResumes(r) == HookStoryReturned(r) \/ HookStoryThrown(r)

LoadingAlwaysEnds ==
    isLoading => \E r \in Runs : runs[r].pc = "generateStory" /\ ENABLED StoryCallResumes(r)


\* C20: an object URL created for a narration is revoked once it is no
\* longer displayed: the URLs not revoked are the one displayed and those
\* of generateAudio calls whose result is still to be delivered
AwaitingDelivery(url) ==
    \E r \in Runs : runs[r].pc = "audioSettled" /\ CreatedBy(runs[r].audio) = {url}

UndisplayedUrlsRevoked ==
    \A url \in objectUrls : url = audioUrl \/ AwaitingDelivery(url)


\* C11: in a call of startStoryGeneration the narration and the
\* illustration are requested only once generateStory has returned a story
\* in which every required section is present and not blank; a call whose
\* generateStory failed requests neither
RequestIssued(r) == appRuns[r].audioPc # "none" \/ appRuns[r].imagePc # "none"

ValidatedStoryReturned(r) ==
    /\ appRuns[r].storyResult.state = "returned"
    /\ \A k \in FiveRequired : ~IsMissing(appRuns[r].storyResult.value.story, k)

AssetsOnlyAfterValidatedStory ==
    \A r \in AppRuns :
       /\ RequestIssued(r) => ValidatedStoryReturned(r)
       /\ appRuns[r].pc \in {"generateStory", "failed"} => ~RequestIssued(r)

BothRequestedAfterStory ==
    \E r \in AppRuns :
       /\ ValidatedStoryReturned(r)
       /\ appRuns[r].audioPc = "fetch"
       /\ appRuns[r].imagePc = "pending"


\* C12: the narration call and the illustration call each end on their own:
\* the step in which the narration call's timer expires leaves the story
\* shown and the illustration call as they are, the step in which the
\* illustration call fails or expires leaves the story and the narration
\* call as they are, and a call that has settled can always deliver its
\* result, which is then the value shown
NarrationTimesOut(r) ==
    /\ appRuns[r].audioPc = "fetch"
    /\ appRuns'[r].audioPc = "settled"
    /\ appRuns'[r].audioEndpoint.kind = "abort"

IllustrationFails(r) ==
    /\ appRuns[r].imagePc = "pending"
    /\ appRuns'[r].imagePc = "settled"
    /\ appRuns'[r].imageEndpoint \in {"timeout", "error"}

IllustrationUntouched(r) ==
    /\ appRuns'[r].imagePc = appRuns[r].imagePc
    /\ appRuns'[r].image = appRuns[r].image
    /\ appImageUrl' = appImageUrl

NarrationUntouched(r) ==
    /\ appRuns'[r].audioPc = appRuns[r].audioPc
    /\ appRuns'[r].audio = appRuns[r].audio
    /\ appAudioUrl' = appAudioUrl

ResultDelivered(r) ==
    /\ appRuns[r].imagePc = "settled" /\ appRuns'[r].imagePc = "done"
          /\ appRuns[r].image.state = "returned"
          => appImageUrl' = appRuns[r].image.value
    /\ appRuns[r].audioPc = "settled" /\ appRuns'[r].audioPc = "done"
          /\ appRuns[r].audio.state = "returned"
          => appAudioUrl' = appRuns[r].audio.value

CanDeliver(r) ==
    /\ appRuns[r].imagePc = "pending" => ENABLED AppImageSettles(r)
    /\ appRuns[r].imagePc = "settled" => ENABLED AppImageThen(r)
    /\ appRuns[r].audioPc = "fetch" => ENABLED AppAudioFetchSettles(r)
    /\ appRuns[r].audioPc = "settled" => ENABLED AppAudioThen(r)

Succeeded(r) == runs[r].result = Returned([success |-> TRUE])

StorySucceeds(r) == ~Succeeded(r) /\ runs'[r].result = Returned([success |-> TRUE])

StoryFails(r) == runs[r].pc = "generateStory" /\ runs'[r].pc = "failed"

KeyErrorTold(r) ==
    /\ runs'[r].result = Returned([success |-> FALSE, requiresApiKey |-> TRUE])
    /\ error' = Null

FailureGoesBackToForm ==
    [][\A r \in Runs :
         StoryFails(r) =>
            /\ view' = "form"
            /\ ~isLoading'
            /\ story' = Null
            /\ audioUrl' = Null
            /\ audioState' = "failed"
            /\ runs'[r].result.state = "returned"
            /\ ~runs'[r].result.value.success
            /\ runs'[r].audio = Pending /\ runs'[r].audioEndpoint = Null
            /\ error' = Null => KeyErrorTold(r)
            /\ "requiresApiKey" \in DOMAIN runs'[r].result.value => KeyErrorTold(r)]_vars


\* C26: the audio URL the hook holds is the narration of the story it holds,
\* and a narration state of 'success' or 'failed' beside a story is the
\* outcome of that story's own narration: the late result of an earlier
\* call's narration sets neither for a newer call
AudioBelongsToStory ==
    /\ audioUrl # Null => story # Null /\ audioUrl.run = story.run
    /\ \A r \in Runs :
          runs[r].pc \in {"generateStory", "audioFetch", "audioBody", "audioSettled"}
             /\ ~runs[r].superseded
          => audioUrl = Null /\ audioState = "loading"


\* C27: from handleReset to the next call of startStoryGeneration the hook
\* stays reset (story = null, audioUrl = null, audioState = 'idle',
\* view = 'form'), whatever call that was pending at the reset completes,
\* and story is not null only while view = 'output'
ResetState ==
    story = Null /\ audioUrl = Null /\ audioState = "idle" /\ view = "form"

CallStarts == \E r \in Runs : runs[r].pc = "unused" /\ runs'[r].pc # "unused"

ResetStateKept ==
    [][/\ ResetState /\ ~CallStarts => ResetState'
       /\ story' # Null => view' = "output"]_vars


\* C28: audioState is 'success' exactly when audioUrl is not null; with
\* audioState 'idle', 'loading' or 'failed' audioUrl is null
SuccessIffAudioUrl == (audioState = "success") <=> (audioUrl # Null)


\* C21: a guest has one trial: over the submits, resets and completions at
\* most one call of startStoryGeneration succeeds for a guest, the count is
\* at least 1 from then on, and once guestStoryCount >= 1 no submit starts a
\* generation: the submit opens the login modal
GuestOutOfCredit == user = Null /\ guestStoryCount >= 1

NarrationInputsGiven ==
    audioReq.hasBody /\ audioReq.storyMarkdown # <<>> /\ audioReq.voice

TtsCallAllowed(cleaned) ==
    /\ audioReq.method = "POST"
    /\ audioReq.apiKey
    /\ NarrationInputsGiven
    /\ cleaned # <<>>

AnswerWithoutTts(cleaned) ==
    CASE audioReq.method = "OPTIONS" -> 200
      [] audioReq.method # "POST" -> 405
      [] ~audioReq.apiKey -> 500
      [] OTHER -> 400

TtsCalled == cleanStoryText # Null

GuardedBy(cleaned) ==
    /\ TtsCalled <=> TtsCallAllowed(cleaned)
    /\ ~TtsCalled => audioRes.status = AnswerWithoutTts(cleaned)

OneResponseTtsGuarded ==
    /\ audioApiPc = "start" => audioRes = Null /\ ~TtsCalled
    /\ audioApiPc = "tts" => audioRes = Null /\ TtsCalled
    /\ audioApiPc = "done" => audioRes # Null
    /\ audioApiPc \in {"tts", "done"} =>
          GuardedBy(TruncateForTts(CleanForNarration(audioReq.storyMarkdown)))


\* C24: in the combined generateStoryAndAudio variants a parsed story that
\* lacks the title or one of the five parts is rejected with a
\* StoryGenerationError; a story is accepted only with all six sections
StoryAccepted ==
    \/ combinedPc = "tts"
    \/ combinedPc = "done" /\ combinedResult.state = "returned"

RejectedAsIncomplete ==
    combinedPc = "done" /\ combinedResult = Thrown(IncompleteStructure)

OnlyCompleteStoriesAccepted ==
    combinedStory # Null =>
        /\ StoryAccepted => HasAllSections(combinedStory)
        /\ ~HasAllSections(combinedStory) => RejectedAsIncomplete


\* C29: useApiKey never shows the API-key modal to a Student: in every
\* state showApiKeyModal implies that userRole is not 'Student'
ModalNeverShownToStudent == showApiKeyModal => userRole # "Student"

====
